---- MODULE Spec2Model ----
(***************************************************************************)
(* Model of the bank statement parsing engine: parsers/banamex_parser.py   *)
(* and parsers/bbva_parser.py (debit accounts and credit cards).           *)
(*                                                                         *)
(* Representation.                                                         *)
(*  - A positioned word is a record [text, x0, x1, top, page]; `page` is a *)
(*    ghost field naming the page the word was read from.                  *)
(*  - Python strings are TLA+ strings; " ".join is Join.  A regular        *)
(*    expression over a joined line is evaluated on the words of the line  *)
(*    (words hold no white space), through tables over the bounded word    *)
(*    alphabet below.  A marker phrase ("DETALLE DE OPERACIONES") is one   *)
(*    word of the alphabet.                                                *)
(*  - Amounts are integers in cents; float("...") is the table Cents.      *)
(*  - None is NULL for the strings of a transaction and NoBoundaries (the   *)
(*    empty function) for the column mapping.  A metadata field of the     *)
(*    result of parse is << >> for None and <<v>> for the value v.         *)
(*  - The text of a document is the sequence of its lines; a pattern of    *)
(*    the metadata functions is the table of the lines it matches.         *)
(*  - Accented letters of the source are written without the accent.       *)
(*  - For the amount normalizers a token is the sequence of its            *)
(*    characters, and strip, replace, rstrip and float are computed.       *)
(*                                                                         *)
(* Specifications.  Spec: one transaction pass, line by line.  SpecBlock:  *)
(* one block turned into its transaction.  SpecParse: parse().  SpecCols:  *)
(* find_column_boundaries.  SpecLines: group_words_into_lines.             *)
(* SpecAmount: the amount normalizers.  SpecTwo: two passes with their     *)
(* steps interleaved.  SpecDebito: the line loop of parse_debito.          *)
(***************************************************************************)
EXTENDS Integers, Sequences, FiniteSets, TLC

NULL == "<None>"
NoBoundaries == << >>

\* ---------------------------------------------------------------- bounds
MaxPages == 2
MaxLines == 4
MaxBlockWords == 3
MaxHeaderWords == 3
MaxGroupWords == 4
MaxDebitoLines == 4

\* ------------------------------------------------------- program constants
BanamexLateral == 20
BbvaLateral == 20
BbvaSaldoLateral == 40
BbvaNearTop == 5
PageHeight == 800

\* ------------------------------------------------------------ text tables

RECURSIVE Join(_)
Join(parts) ==
    IF parts = << >> THEN ""
    ELSE IF Len(parts) = 1 THEN parts[1]
    ELSE parts[1] \o " " \o Join(Tail(parts))

LineText(line_words) == Join([i \in 1..Len(line_words) |-> line_words[i].text])

\* str.upper() on the alphabet.
Upper(t) ==
    CASE t = "ene" -> "ENE"
      [] t = "Detalle de Operaciones" -> "DETALLE DE OPERACIONES"
      [] OTHER -> t

\* float(t.replace(',', '')) succeeds.
NumericTokens ==
    {"2", "02", "32", "150.00", "200.00", "10.00", "-5.00", "0.00", "1,200.00", "700.00",
     "1,000.00", "500.00", "300.00"}

IsNumeric(t) == t \in NumericTokens

\* float(t.replace(',', '')) in cents.
Cents(t) ==
    CASE t = "2" -> 200
      [] t = "02" -> 200
      [] t = "32" -> 3200
      [] t = "150.00" -> 15000
      [] t = "200.00" -> 20000
      [] t = "10.00" -> 1000
      [] t = "-5.00" -> 0 - 500
      [] t = "0.00" -> 0
      [] t = "1,200.00" -> 120000
      [] t = "700.00" -> 70000
      [] t = "1,000.00" -> 100000
      [] t = "500.00" -> 50000
      [] t = "300.00" -> 30000

\* banamex _clean_amount and bbva _clean_amount: 0.0 for what float rejects.
\* ("$" is only stripped by the banamex one; no word of the alphabet holds it.)
_clean_amount(t) == IF IsNumeric(t) THEN Cents(t) ELSE 0

\* The word is \d{1,2} and nothing else.
IsDay12(t) == t \in {"2", "02", "32"}

\* The word is [A-Z]{3} and nothing else (no case folding).
IsUpper3(t) == t \in {"ENE", "FEB", "XYZ", "REF"}

\* The first three characters of the word when they are [A-Z]{3}, else NULL.
Lead3(t) ==
    CASE t \in {"ENE", "FEB", "XYZ", "REF"} -> t
      [] t = "PAGO" -> "PAG"
      [] t = "NOMINA" -> "NOM"
      [] t = "GLOSARIO" -> "GLO"
      [] t = "DETALLE DE OPERACIONES" -> "DET"
      [] t = "RETIROS" -> "RET"
      [] t = "DEPOSITOS" -> "DEP"
      [] t = "SALDO" -> "SAL"
      [] OTHER -> NULL

MONTH_MAP ==
    [ENE |-> "01", FEB |-> "02", MAR |-> "03", ABR |-> "04", MAY |-> "05", JUN |-> "06",
     JUL |-> "07", AGO |-> "08", SEP |-> "09", OCT |-> "10", NOV |-> "11", DIC |-> "12"]

\* str.zfill(2) on a day or month of one or two digits.
ZFill2(t) == IF Len(t) < 2 THEN "0" \o t ELSE t

\* banamex: re.match(r"^\d{1,2}\s+[A-Z]{3}", line_text.upper())
BanamexDateLine(line_words) ==
    /\ Len(line_words) >= 2
    /\ IsDay12(line_words[1].text)
    /\ Lead3(Upper(line_words[2].text)) # NULL

\* bbva debit: the word starts with \d{2}/\w{3}; its day and month parts.
DebitoDateTokens == {"02/ENE", "03/ENE", "31/FEB", "05/XYZ"}

DebitoDay(t) ==
    CASE t \in {"02/ENE"} -> "02"
      [] t = "03/ENE" -> "03"
      [] t = "31/FEB" -> "31"
      [] t = "05/XYZ" -> "05"

DebitoMonth(t) ==
    CASE t \in {"02/ENE", "03/ENE"} -> "ENE"
      [] t = "31/FEB" -> "FEB"
      [] t = "05/XYZ" -> "XYZ"

\* bbva debit: re.match(r'(\d{2}/\w{3})', line_text)
DebitoDateLine(line_words) ==
    /\ Len(line_words) >= 1
    /\ line_words[1].text \in DebitoDateTokens

\* bbva credit card: a word of the form \d{2}/\d{2}/\d{2}.
TcDateTokens == {"15/01/25", "31/02/25"}

\* datetime.strptime(t, "%d/%m/%y").strftime("%Y-%m-%d"), NULL for ValueError.
StrptimeDMy(t) ==
    CASE t = "15/01/25" -> "2025-01-15"
      [] OTHER -> NULL

\* bbva credit card: (\$ ?-?\d{1,3}(?:,\d{3})*(?:\.\d{2})?)$ on the last word.
TcImporteTokens == {"$150.00", "$-50.00"}

\* float(importe_txt.replace(",", "")) in cents, "$" removed.
TcImporte(t) ==
    CASE t = "$150.00" -> 15000
      [] t = "$-50.00" -> 0 - 5000

\* ------------------------------------------------------ section markers

\* banamex: "DETALLE DE OPERACIONES" in line_text.upper()
BanamexHasStart(line_words) ==
    \E i \in 1..Len(line_words) : Upper(line_words[i].text) = "DETALLE DE OPERACIONES"

\* banamex: any(marker in line_text.upper() for marker in [...])
BanamexHasStop(line_words) ==
    \E i \in 1..Len(line_words) :
        Upper(line_words[i].text) \in
            {"SALDO MINIMO REQUERIDO", "RESUMEN OPERACIONES TARJETA", "GLOSARIO"}

\* bbva debit: "Detalle de Movimientos Realizados" in line_text
DebitoHasStart(line_words) ==
    \E i \in 1..Len(line_words) : line_words[i].text = "Detalle de Movimientos Realizados"

\* bbva debit: "Total de Movimientos" in line_text
DebitoHasStop(line_words) ==
    \E i \in 1..Len(line_words) : line_words[i].text = "Total de Movimientos"

\* bbva credit card: "Movimientos Efectuados Tarjeta Titular" in line
TcHasStart(line_words) ==
    \E i \in 1..Len(line_words) : line_words[i].text = "Movimientos Efectuados Tarjeta Titular"

\* bbva credit card: "TOTAL IMPORTES" in line
TcHasStop(line_words) ==
    \E i \in 1..Len(line_words) : line_words[i].text = "TOTAL IMPORTES"

\* The words of the alphabet in which some IGNORE_PATTERNS entry is found
\* (re.IGNORECASE): "SALDO", "CARGOS", "ABONOS", "REFERENCIA", "PAGINA \d+ / \d+".
IgnoreTokens == {"SALDO", "CARGOS", "ABONOS", "REFERENCIA", "PAGINA 1 / 3"}

is_ignore_line(line_words) ==
    \E i \in 1..Len(line_words) : line_words[i].text \in IgnoreTokens

\* ------------------------------------------------------ column boundaries

\* boundaries[k] = v on a dict held as a function.
Put(b, k, v) == [x \in (DOMAIN b) \cup {k} |-> IF x = k THEN v ELSE b[x]]

\* text.startswith("RETIRO") / "DEPOSITO" (with or without the accent) / "SALDO",
\* text upper-cased.
StartsRetiro(t) == Upper(t) \in {"RETIRO", "RETIROS"}
StartsDeposito(t) == Upper(t) \in {"DEPOSITO", "DEPOSITOS"}
StartsSaldo(t) == Upper(t) \in {"SALDO", "SALDOS"}

\* banamex: the loop over header_candidates; a later label overwrites an earlier one.
RECURSIVE BanamexScan(_, _)
BanamexScan(words, boundaries) ==
    IF words = << >> THEN boundaries
    ELSE LET word == Head(words)
             b == IF ~(2 * word.top < PageHeight) THEN boundaries
                  ELSE IF StartsRetiro(word.text)
                       THEN Put(boundaries, "retiro", <<word.x0, word.x1>>)
                  ELSE IF StartsDeposito(word.text)
                       THEN Put(boundaries, "deposito", <<word.x0, word.x1>>)
                  ELSE IF StartsSaldo(word.text)
                       THEN Put(boundaries, "saldo", <<word.x0, word.x1>>)
                  ELSE boundaries
         IN BanamexScan(Tail(words), b)

\* A looser return condition, for comparison: one of the two labels is enough.
BanamexReturnsEither(boundaries) ==
    "retiro" \in DOMAIN boundaries \/ "deposito" \in DOMAIN boundaries

\* `'retiro' in boundaries and 'deposito' in boundaries`
BanamexReturnsBoundaries(boundaries) ==
    "retiro" \in DOMAIN boundaries /\ "deposito" \in DOMAIN boundaries

banamex_find_column_boundaries(words) ==
    LET boundaries == BanamexScan(words, << >>)
    IN IF BanamexReturnsBoundaries(boundaries) THEN boundaries ELSE NoBoundaries

\* saldo_words[-1]: the last word of the page whose text is SALDO.
LastSaldo(words) ==
    LET idx == {i \in 1..Len(words) : Upper(words[i].text) = "SALDO"}
    IN words[CHOOSE i \in idx : \A j \in idx : j <= i]

RECURSIVE BbvaScan(_, _, _)
BbvaScan(rest, words, boundaries) ==
    IF rest = << >> THEN boundaries
    ELSE LET word == Head(rest)
             text == Upper(word.text)
             b == IF text = "CARGOS" THEN Put(boundaries, "retiro", <<word.x0, word.x1>>)
                  ELSE IF text = "ABONOS"
                       THEN Put(boundaries, "deposito", <<word.x0, word.x1>>)
                  ELSE IF text = "SALDO" /\ "saldo" \notin DOMAIN boundaries
                       THEN Put(boundaries, "saldo",
                                <<LastSaldo(words).x0, LastSaldo(words).x1>>)
                  ELSE boundaries
         IN BbvaScan(Tail(rest), words, b)

BbvaReturnsBoundaries(boundaries) == Cardinality(DOMAIN boundaries) >= 3

bbva_find_column_boundaries(words) ==
    LET boundaries == BbvaScan(words, words, << >>)
    IN IF BbvaReturnsBoundaries(boundaries) THEN boundaries ELSE NoBoundaries

\* `if not column_boundaries`
Falsy(column_boundaries) == DOMAIN column_boundaries = {}

\* lo <= (x0 + x1) / 2 <= hi, without the division.
MidWithin(word, lo, hi) == 2 * lo <= word.x0 + word.x1 /\ word.x0 + word.x1 <= 2 * hi

\* ----------------------------------------------------- banamex: a block

\* _format_date_banamex(f"{day} {month_str}", year): the month abbreviation is
\* replaced through MONTH_MAP; an abbreviation it does not hold leaves a part that
\* is not a digit string, and the result is None.
_format_date_banamex(day, month_str, year) ==
    IF month_str \in DOMAIN MONTH_MAP
    THEN year \o "-" \o ZFill2(MONTH_MAP[month_str]) \o "-" \o ZFill2(day)
    ELSE NULL

BanamexInRetiro(word, cb) ==
    MidWithin(word, cb["retiro"][1] - BanamexLateral, cb["retiro"][2] + BanamexLateral)

BanamexInDeposito(word, cb) ==
    MidWithin(word, cb["deposito"][1] - BanamexLateral, cb["deposito"][2] + BanamexLateral)

BanamexInSaldo(word, cb) ==
    /\ "saldo" \in DOMAIN cb
    /\ MidWithin(word, cb["saldo"][1] - BanamexLateral, cb["saldo"][2] + BanamexLateral)

\* One turn of `for word in all_words_in_block` on the accumulator
\* [retiro, deposito, saldo, description_parts].
BanamexWord(acc, word, cb) ==
    IF IsNumeric(word.text)
    THEN IF BanamexInRetiro(word, cb)
         THEN [acc EXCEPT !.retiro = @ + _clean_amount(word.text)]
         ELSE IF BanamexInDeposito(word, cb)
         THEN [acc EXCEPT !.deposito = @ + _clean_amount(word.text)]
         ELSE IF BanamexInSaldo(word, cb)
         THEN [acc EXCEPT !.saldo = _clean_amount(word.text)]
         ELSE [acc EXCEPT !.description_parts = Append(@, word.text)]
    ELSE [acc EXCEPT !.description_parts = Append(@, word.text)]

RECURSIVE BanamexWords(_, _, _)
BanamexWords(acc, words, cb) ==
    IF words = << >> THEN acc
    ELSE BanamexWords(BanamexWord(acc, Head(words), cb), Tail(words), cb)

RECURSIVE Flatten(_)
Flatten(block) == IF block = << >> THEN << >> ELSE Head(block) \o Flatten(Tail(block))

\* re.sub(r"^\d{1,2}\s+[A-Z]{3}\s+", "", " ".join(description_parts)).strip()
BanamexCleanDesc(parts) ==
    IF Len(parts) >= 3 /\ IsDay12(parts[1]) /\ IsUpper3(parts[2])
    THEN Join(SubSeq(parts, 3, Len(parts)))
    ELSE Join(parts)

\* The body of `for block in transaction_blocks`: << >> when nothing is appended,
\* else the one transaction.
BanamexBlock(block, cb, year) ==
    IF ~BanamexDateLine(block[1]) THEN << >>
    ELSE LET day == block[1][1].text
             month_str == Lead3(Upper(block[1][2].text))
             date == _format_date_banamex(day, month_str, year)
             acc == BanamexWords([retiro |-> 0, deposito |-> 0, saldo |-> 0,
                                  description_parts |-> << >>], Flatten(block), cb)
             clean_desc == BanamexCleanDesc(acc.description_parts)
         IN IF clean_desc # "" \/ acc.retiro > 0 \/ acc.deposito > 0
            THEN << [Fecha |-> date, Descripcion |-> clean_desc, Retiro |-> acc.retiro,
                     Deposito |-> acc.deposito, Saldo |-> acc.saldo, Banco |-> NULL,
                     page |-> block[1][1].page] >>
            ELSE << >>

RECURSIVE BanamexBlocks(_, _, _)
BanamexBlocks(blocks, cb, year) ==
    IF blocks = << >> THEN << >>
    ELSE BanamexBlock(Head(blocks), cb, year) \o BanamexBlocks(Tail(blocks), cb, year)

\* parse_transactions after the page loop: the open block is closed, and the
\* blocks are turned into transactions unless no boundaries were ever found.
BanamexFinish(transaction_blocks, current_block, cb, year) ==
    LET blocks == IF current_block # << >> THEN Append(transaction_blocks, current_block)
                  ELSE transaction_blocks
    IN IF Falsy(cb) THEN << >> ELSE BanamexBlocks(blocks, cb, year)

\* --------------------------------------------------- bbva debit: a line

DebitoInRetiro(word, cb) == MidWithin(word, cb["retiro"][1], cb["retiro"][2] + BbvaLateral)

\* The credit column taken without its lateral tolerance, for comparison.
DebitoInDepositoExact(word, cb) == MidWithin(word, cb["deposito"][1], cb["deposito"][2])

DebitoInDeposito(word, cb) ==
    MidWithin(word, cb["deposito"][1], cb["deposito"][2] + BbvaLateral)

DebitoInSaldo(word, cb) == MidWithin(word, cb["saldo"][1], cb["saldo"][2] + BbvaSaldoLateral)

\* One turn of `for word in line_words`: the amounts are assigned, not added.
DebitoWord(acc, word, cb) ==
    IF DebitoInRetiro(word, cb) THEN [acc EXCEPT !.retiro = _clean_amount(word.text)]
    ELSE IF DebitoInDeposito(word, cb) THEN [acc EXCEPT !.deposito = _clean_amount(word.text)]
    ELSE IF DebitoInSaldo(word, cb) THEN [acc EXCEPT !.saldo = _clean_amount(word.text)]
    ELSE [acc EXCEPT !.description_parts = Append(@, word.text)]

RECURSIVE DebitoWords(_, _, _)
DebitoWords(acc, words, cb) ==
    IF words = << >> THEN acc
    ELSE DebitoWords(DebitoWord(acc, Head(words), cb), Tail(words), cb)

Abs(n) == IF n < 0 THEN 0 - n ELSE n

\* `if saldo == 0.0`: the first word of the page in the balance column whose top
\* is less than 5 from the top of the line's first word.
DebitoSaldoSearch(saldo, words, line_words, cb) ==
    IF saldo # 0 THEN saldo
    ELSE LET idx == {i \in 1..Len(words) :
                        /\ DebitoInSaldo(words[i], cb)
                        /\ Abs(words[i].top - line_words[1].top) < BbvaNearTop}
         IN IF idx = {} THEN saldo
            ELSE _clean_amount(words[CHOOSE i \in idx : \A j \in idx : i <= j].text)

\* The word is \d{2}/\w{3} and nothing else.
IsDebitoDate(t) == t \in DebitoDateTokens

\* re.sub(r'^\d{2}/\w{3}\s+\d{2}/\w{3}\s+', '', " ".join(description_parts)).strip()
DebitoCleanDesc(parts) ==
    IF Len(parts) >= 3 /\ IsDebitoDate(parts[1]) /\ IsDebitoDate(parts[2])
    THEN Join(SubSeq(parts, 3, Len(parts)))
    ELSE Join(parts)

\* f"{year}-{MONTH_MAP.get(month_str.upper(), '00')}-{day}"
DebitoDateStr(t, year) ==
    LET mon == Upper(DebitoMonth(t))
    IN year \o "-" \o (IF mon \in DOMAIN MONTH_MAP THEN MONTH_MAP[mon] ELSE "00")
            \o "-" \o DebitoDay(t)

\* The transaction a date line gives (the body of `if date_match`).
DebitoTransaction(line_words, words, cb, year) ==
    LET acc == DebitoWords([retiro |-> 0, deposito |-> 0, saldo |-> 0,
                            description_parts |-> << >>], line_words, cb)
    IN [Fecha |-> DebitoDateStr(line_words[1].text, year),
        Descripcion |-> DebitoCleanDesc(acc.description_parts),
        Retiro |-> acc.retiro, Deposito |-> acc.deposito,
        Saldo |-> DebitoSaldoSearch(acc.saldo, words, line_words, cb),
        Banco |-> "BBVA", page |-> line_words[1].page]

\* all_transactions[-1]["Descripcion"] += " " + line_text.strip()
AppendDescription(txs, text) ==
    [txs EXCEPT ![Len(txs)].Descripcion = @ \o " " \o text]

\* ----------------------------------------------- bbva credit card: a line

\* re.match(r'(\d{2}/\d{2}/\d{2})\s+(\d{2}/\d{2}/\d{2})\s+(.*)', line)
TcDateLine(line_words) ==
    /\ Len(line_words) >= 3
    /\ line_words[1].text \in TcDateTokens
    /\ line_words[2].text \in TcDateTokens

\* to_iso: the raw text is the fallback.
to_iso(t) == IF StrptimeDMy(t) # NULL THEN StrptimeDMy(t) ELSE t

TcTransaction(line_words) ==
    LET rest == SubSeq(line_words, 3, Len(line_words))
        last == rest[Len(rest)].text
        importe_match == last \in TcImporteTokens
        importe == IF importe_match THEN TcImporte(last) ELSE 0
        desc_words == IF importe_match THEN SubSeq(rest, 1, Len(rest) - 1) ELSE rest
    IN [Fecha |-> to_iso(line_words[2].text),
        Descripcion |-> LineText(desc_words),
        Retiro |-> IF importe > 0 THEN importe ELSE 0,
        Deposito |-> IF importe < 0 THEN Abs(importe) ELSE 0,
        Saldo |-> 0, Banco |-> "BBVA TC", page |-> line_words[1].page]

\* ------------------------------------------- the transaction passes
\* The locals of a transaction pass as a record:
\*   [column_boundaries, in_transaction_section, all_transactions,
\*    transaction_blocks, current_block, brk]
\* in_transaction_section is banamex's in_tx_section; transaction_blocks and
\* current_block are banamex's; brk says that the line loop of the current page
\* does not run (any more): left by `break`, or never entered (`continue`).

PassStart ==
    [column_boundaries |-> NoBoundaries, in_transaction_section |-> FALSE,
     all_transactions |-> << >>, transaction_blocks |-> << >>, current_block |-> << >>,
     brk |-> FALSE]

\* banamex parse_transactions, the body of `for line_words in lines`.
BanamexLine(s, line_words) ==
    LET s1 == IF BanamexHasStart(line_words)
              THEN [s EXCEPT !.in_transaction_section = TRUE] ELSE s
    IN IF ~s1.in_transaction_section THEN s1
       ELSE IF BanamexHasStop(line_words)
       THEN [s1 EXCEPT !.in_transaction_section = FALSE, !.brk = TRUE]
       ELSE IF BanamexDateLine(line_words)
       THEN [s1 EXCEPT !.transaction_blocks =
                           IF s1.current_block # << >> THEN Append(@, s1.current_block) ELSE @,
                       !.current_block = <<line_words>>]
       ELSE IF s1.current_block # << >>
       THEN [s1 EXCEPT !.current_block = Append(@, line_words)]
       ELSE s1

\* For comparison: the ignore test placed after the marker tests.
DebitoLineMarkersFirst(s, line_words, words, year) ==
    IF DebitoHasStart(line_words) THEN [s EXCEPT !.in_transaction_section = TRUE]
    ELSE IF DebitoHasStop(line_words)
    THEN [s EXCEPT !.in_transaction_section = FALSE, !.brk = TRUE]
    ELSE IF is_ignore_line(line_words) \/ ~s.in_transaction_section THEN s
    ELSE IF DebitoDateLine(line_words)
    THEN [s EXCEPT !.all_transactions =
              Append(@, DebitoTransaction(line_words, words, s.column_boundaries, year))]
    ELSE IF s.all_transactions # << >> /\ LineText(line_words) # ""
    THEN [s EXCEPT !.all_transactions = AppendDescription(@, LineText(line_words))]
    ELSE s

\* bbva parse_debito, the body of `for line_words in lines`; `words` are the
\* words of the page.
DebitoLine(s, line_words, words, year) ==
    IF is_ignore_line(line_words) THEN s
    ELSE IF DebitoHasStart(line_words) THEN [s EXCEPT !.in_transaction_section = TRUE]
    ELSE IF DebitoHasStop(line_words)
    THEN [s EXCEPT !.in_transaction_section = FALSE, !.brk = TRUE]
    ELSE IF ~s.in_transaction_section THEN s
    ELSE IF DebitoDateLine(line_words)
    THEN [s EXCEPT !.all_transactions =
              Append(@, DebitoTransaction(line_words, words, s.column_boundaries, year))]
    ELSE IF s.all_transactions # << >> /\ LineText(line_words) # ""
    THEN [s EXCEPT !.all_transactions = AppendDescription(@, LineText(line_words))]
    ELSE s

\* bbva parse_credit_card, the body of `for line in lines`.
TcLine(s, line_words) ==
    IF TcHasStart(line_words) THEN [s EXCEPT !.in_transaction_section = TRUE]
    ELSE IF TcHasStop(line_words)
    THEN [s EXCEPT !.in_transaction_section = FALSE, !.brk = TRUE]
    ELSE IF ~s.in_transaction_section THEN s
    ELSE IF TcDateLine(line_words)
    THEN [s EXCEPT !.all_transactions = Append(@, TcTransaction(line_words))]
    ELSE s

\* One text line through the line loop of pass d.
PassLine(d, s, line_words, words, year) ==
    IF d = "banamex" THEN BanamexLine(s, line_words)
    ELSE IF d = "debito" THEN DebitoLine(s, line_words, words, year)
    ELSE TcLine(s, line_words)

\* For comparison: the boundaries looked for on every page, nothing kept.
PageBoundaries(d, s, words) ==
    IF d = "tc" THEN s.column_boundaries
    ELSE IF d = "banamex" THEN banamex_find_column_boundaries(words)
    ELSE bbva_find_column_boundaries(words)

\* `if not column_boundaries: column_boundaries = find_column_boundaries(page)`
\* (the credit card pass looks for none).
PassBoundaries(d, s, words) ==
    IF d = "tc" \/ ~Falsy(s.column_boundaries) THEN s.column_boundaries
    ELSE IF d = "banamex" THEN banamex_find_column_boundaries(words)
    ELSE bbva_find_column_boundaries(words)

\* The head of `for page in pages`, up to the line loop: bbva debit leaves a
\* page for which it has no boundaries (`continue`).
PassPageHead(d, s, words) ==
    LET cb == PassBoundaries(d, s, words)
    IN [s EXCEPT !.column_boundaries = cb, !.brk = (d = "debito" /\ Falsy(cb))]

\* What a pass returns after its page loop; banamex closes the open block and
\* builds its transactions here, or returns [] without boundaries.
PassFinish(d, s, year) ==
    IF d = "banamex"
    THEN BanamexFinish(s.transaction_blocks, s.current_block, s.column_boundaries, year)
    ELSE s.all_transactions

\* A whole pass over a document: a page is [words, lines], the words of the
\* page and its text lines in order.
RECURSIVE PassLines(_, _, _, _, _)
PassLines(d, s, lines, words, year) ==
    IF lines = << >> \/ s.brk THEN s
    ELSE PassLines(d, PassLine(d, s, Head(lines), words, year), Tail(lines), words, year)

RECURSIVE PassPages(_, _, _, _)
PassPages(d, s, pages, year) ==
    IF pages = << >> THEN s
    ELSE LET page == Head(pages)
             s1 == PassPageHead(d, s, page.words)
         IN PassPages(d, PassLines(d, s1, page.lines, page.words, year), Tail(pages), year)

\* parse_transactions / parse_debito / parse_credit_card
RunPass(d, pages, year) == PassFinish(d, PassPages(d, PassStart, pages, year), year)

\* ------------------------------------------------------------- the inputs

\* A word of 20 units around the midpoint `mid`, on a text line at `top`.
W(t, mid, top) == [text |-> t, x0 |-> mid - 10, x1 |-> mid + 10, top |-> top, page |-> 0]

\* A column label from x0 to x1 in the header region of the page.
Label(t, a, b) == [text |-> t, x0 |-> a, x1 |-> b, top |-> 100, page |-> 0]

Tag(line_words, p) == [i \in 1..Len(line_words) |-> [line_words[i] EXCEPT !.page = p]]

Dialects == {"banamex", "debito", "tc"}

\* The header line of a page: none, the three labels far apart, the charge and
\* credit labels less than the lateral tolerance apart, the balance label alone.
Headers(d) ==
    IF d = "banamex"
    THEN { << >>,
           << Label("RETIROS", 300, 340), Label("DEPOSITOS", 400, 440), Label("SALDO", 500, 540) >>,
           << Label("RETIROS", 300, 340), Label("DEPOSITOS", 350, 390), Label("SALDO", 500, 540) >>,
           << Label("SALDO", 500, 540) >> }
    ELSE IF d = "debito"
    THEN { << >>,
           << Label("CARGOS", 300, 340), Label("ABONOS", 400, 440), Label("SALDO", 500, 540) >>,
           << Label("CARGOS", 300, 340), Label("ABONOS", 350, 390), Label("SALDO", 500, 540) >>,
           << Label("SALDO", 500, 540) >> }
    ELSE { << >> }

\* The text lines below the header; none holds a column label.
Lines(d) ==
    IF d = "banamex"
    THEN { << W("DETALLE DE OPERACIONES", 120, 300) >>,
           << W("GLOSARIO", 120, 300) >>,
           << W("02", 50, 300), W("ENE", 80, 300), W("PAGO", 120, 300), W("150.00", 320, 300) >>,
           << W("2", 50, 300), W("ENE", 80, 300), W("NOMINA", 120, 300), W("200.00", 420, 300) >>,
           << W("02", 50, 300), W("ENE", 80, 300), W("200.00", 370, 300) >>,
           << W("02", 50, 300), W("ENE", 80, 300), W("-5.00", 320, 300) >>,
           << W("32", 50, 300), W("ENE", 80, 300), W("PAGO", 120, 300) >>,
           << W("02", 50, 300), W("PAGO", 120, 300) >>,
           << W("PAGO", 120, 300) >>,
           << W("10.00", 320, 300) >> }
    ELSE IF d = "debito"
    THEN { << W("Detalle de Movimientos Realizados", 120, 300) >>,
           << W("Total de Movimientos", 120, 300) >>,
           << W("PAGINA 1 / 3", 120, 300) >>,
           << W("02/ENE", 50, 300), W("03/ENE", 80, 300), W("PAGO", 120, 300),
              W("150.00", 320, 300), W("1,200.00", 520, 300) >>,
           << W("02/ENE", 50, 300), W("NOMINA", 120, 300), W("200.00", 420, 300) >>,
           << W("02/ENE", 50, 300), W("200.00", 370, 300) >>,
           << W("02/ENE", 50, 300), W("-5.00", 320, 300) >>,
           << W("31/FEB", 50, 300), W("PAGO", 120, 300) >>,
           << W("05/XYZ", 50, 300), W("PAGO", 120, 300) >>,
           << W("PAGO", 120, 300) >>,
           << W("10.00", 320, 300) >> }
    ELSE { << W("Movimientos Efectuados Tarjeta Titular", 120, 300) >>,
           << W("TOTAL IMPORTES", 120, 300) >>,
           << W("15/01/25", 50, 300), W("15/01/25", 80, 300), W("PAGO", 120, 300),
              W("$150.00", 320, 300) >>,
           << W("15/01/25", 50, 300), W("15/01/25", 80, 300), W("PAGO", 120, 300),
              W("$-50.00", 320, 300) >>,
           << W("15/01/25", 50, 300), W("31/02/25", 80, 300), W("PAGO", 120, 300) >>,
           << W("PAGO", 120, 300) >> }

\* bbva debit: the words of the page near a date line, besides the line's own:
\* none, or a word of the next text line that lies in the balance column.
Strays(d, line_words) ==
    IF d = "debito" /\ DebitoDateLine(line_words)
    THEN { << >>, << W("700.00", 520, 304) >> }
    ELSE { << >> }

PassYears == {"2025"}

\* ------------------------------------------------------------- the state

VARIABLES
    dialect,                 \* which transaction pass runs
    year,                    \* its year argument
    pc,                      \* "pages": in the page loop; "done": returned
    page_no,                 \* pages begun
    nlines,                  \* text lines of the document seen so far
    reading,                 \* the line loop of the current page is running
    column_boundaries,
    in_transaction_section,  \* banamex: in_tx_section
    all_transactions,
    transaction_blocks,      \* banamex only
    current_block,           \* banamex only
    stopped,                 \* ghost: a stop marker ended the detail section
    nocol_pages,             \* ghost: pages begun with no column boundaries
    bank,                    \* parse: whose parse() is called
    document,                \* parse: the document, [text, pages]
    result,                  \* parse: what parse() gave
    gw_words,                \* line grouper: its words, as far as given
    tolerance,               \* line grouper: its tolerance argument
    gw_lines,                \* line grouper: its lines, closed so far
    current_line,            \* line grouper: the line being filled
    tok,                     \* amount normalizer: its token, as characters
    amount,                  \* amount normalizer: what it returned, in cents
    invocations,             \* two passes at once: each one's document and locals
    interleaved,             \* ghost: a pass stepped while the other was under way
    line_read                \* ghost: the line the debit line loop took last

passVars == <<dialect, year, pc, page_no, nlines, reading, column_boundaries,
              in_transaction_section, all_transactions, transaction_blocks, current_block,
              stopped, nocol_pages>>

parseVars == <<bank, document, result>>

groupVars == <<gw_words, tolerance, gw_lines, current_line>>

amountVars == <<tok, amount>>

twoVars == <<invocations, interleaved>>

vars == <<passVars, parseVars, groupVars, amountVars, twoVars, line_read>>

Locals ==
    [column_boundaries |-> column_boundaries,
     in_transaction_section |-> in_transaction_section,
     all_transactions |-> all_transactions, transaction_blocks |-> transaction_blocks,
     current_block |-> current_block, brk |-> ~reading]

SetLocals(s) ==
    /\ column_boundaries' = s.column_boundaries
    /\ in_transaction_section' = s.in_transaction_section
    /\ all_transactions' = s.all_transactions
    /\ transaction_blocks' = s.transaction_blocks
    /\ current_block' = s.current_block
    /\ reading' = ~s.brk

\* ------------------------------------------- Spec: one transaction pass

Init ==
    /\ dialect \in Dialects
    /\ year \in PassYears
    /\ pc = "pages"
    /\ page_no = 0
    /\ nlines = 0
    /\ reading = FALSE
    /\ column_boundaries = NoBoundaries
    /\ in_transaction_section = FALSE
    /\ all_transactions = << >>
    /\ transaction_blocks = << >>
    /\ current_block = << >>
    /\ stopped = FALSE
    /\ nocol_pages = {}
    /\ gw_words = << >>
    /\ tolerance = 3
    /\ gw_lines = << >>
    /\ current_line = << >>
    /\ tok = << >>
    /\ amount = 0
    /\ invocations = << >>
    /\ interleaved = FALSE
    /\ line_read = << >>
    /\ bank = "none"
    /\ document = [text |-> << >>, pages |-> << >>]
    /\ result = << >>

\* The next page begins: the head of the page loop, then the header line (when
\* the page has one) as the first line of the line loop.
NextPage(header) ==
    /\ pc = "pages"
    /\ page_no < MaxPages
    /\ page_no' = page_no + 1
    /\ LET hl == Tag(header, page_no + 1)
           s1 == PassPageHead(dialect, Locals, hl)
           s2 == IF s1.brk \/ hl = << >> THEN s1 ELSE PassLine(dialect, s1, hl, hl, year)
       IN /\ SetLocals(s2)
          /\ nocol_pages' = IF dialect # "tc" /\ Falsy(s1.column_boundaries)
                            THEN nocol_pages \cup {page_no + 1} ELSE nocol_pages
          /\ stopped' = (stopped \/ (s2.brk /\ ~s1.brk))
    /\ UNCHANGED <<line_read, twoVars, amountVars, groupVars, parseVars, dialect, year, pc, nlines>>

\* One more text line of the current page goes through the line loop.
ReadLine(line, stray) ==
    /\ pc = "pages"
    /\ page_no >= 1
    /\ reading
    /\ nlines < MaxLines
    /\ nlines' = nlines + 1
    /\ LET line_words == Tag(line, page_no)
           s == PassLine(dialect, Locals, line_words, line_words \o Tag(stray, page_no), year)
       IN /\ SetLocals(s)
          /\ stopped' = (stopped \/ (s.brk /\ (dialect = "banamex" \/ in_transaction_section)))
    /\ UNCHANGED <<line_read, twoVars, amountVars, groupVars, parseVars, dialect, year, pc, page_no, nocol_pages>>

\* A text line of a page whose line loop has ended (break) or never ran
\* (bbva debit without boundaries): it is not looked at.
UnreadLine(line) ==
    /\ pc = "pages"
    /\ page_no >= 1
    /\ ~reading
    /\ nlines < MaxLines
    /\ nlines' = nlines + 1
    /\ UNCHANGED <<line_read, twoVars, amountVars, groupVars, parseVars, dialect, year, pc, page_no, reading, column_boundaries,
                   in_transaction_section, all_transactions, transaction_blocks,
                   current_block, stopped, nocol_pages>>

\* The page loop ends and the pass returns.
Finish ==
    /\ pc = "pages"
    /\ pc' = "done"
    /\ reading' = FALSE
    /\ all_transactions' = PassFinish(dialect, Locals, year)
    /\ transaction_blocks' =
           IF dialect = "banamex" /\ current_block # << >>
           THEN Append(transaction_blocks, current_block) ELSE transaction_blocks
    /\ UNCHANGED <<line_read, twoVars, amountVars, groupVars, parseVars, dialect, year, page_no, nlines, column_boundaries,
                   in_transaction_section, current_block, stopped, nocol_pages>>

Next ==
    \/ \E header \in Headers(dialect) : NextPage(header)
    \/ \E line \in Lines(dialect) : \E stray \in Strays(dialect, line) : ReadLine(line, stray)
    \/ \E line \in Lines(dialect) : UnreadLine(line)
    \/ Finish

Spec == Init /\ [][Next]_vars

\* ----------------------------- SpecBlock: one block, word by word
\* The block-to-transaction step of banamex (BanamexBlock) and of bbva debit
\* (DebitoTransaction) on blocks built a word at a time under resolved
\* boundaries.  current_block is the block, all_transactions what it gives.

BlockDialects == {"banamex", "debito"}

\* The layouts of Headers, and one without a balance label.
BlockHeaders(d) ==
    Headers(d) \cup
        (IF d = "banamex"
         THEN { << Label("RETIROS", 300, 340), Label("DEPOSITOS", 400, 440) >> }
         ELSE { })

BlockLayouts(d) ==
    { IF d = "banamex" THEN banamex_find_column_boundaries(h)
      ELSE bbva_find_column_boundaries(h) : h \in BlockHeaders(d) } \ { NoBoundaries }

\* The date that opens the block.
Leads(d) ==
    IF d = "banamex" THEN { << W("02", 50, 300), W("ENE", 80, 300) >> }
    ELSE { << W("02/ENE", 50, 300) >>, << W("02/ENE", 50, 300), W("03/ENE", 80, 300) >> }

BlockMids == {120, 290, 320, 355, 370, 420, 450, 520}

BlockWords(top) ==
    { W(t, m, top) : t \in {"PAGO", "200.00", "-5.00"}, m \in BlockMids }
        \cup { W("0.00", 520, top) }

InitBlock ==
    /\ dialect \in BlockDialects
    /\ year \in PassYears
    /\ pc = "block"
    /\ page_no = 1
    /\ nlines = 0
    /\ reading = FALSE
    /\ column_boundaries \in BlockLayouts(dialect)
    /\ in_transaction_section = TRUE
    /\ all_transactions = << >>
    /\ transaction_blocks = << >>
    /\ current_block \in { << Tag(l, 1) >> : l \in Leads(dialect) }
    /\ stopped = FALSE
    /\ nocol_pages = {}
    /\ gw_words = << >>
    /\ tolerance = 3
    /\ gw_lines = << >>
    /\ current_line = << >>
    /\ tok = << >>
    /\ amount = 0
    /\ invocations = << >>
    /\ interleaved = FALSE
    /\ line_read = << >>
    /\ bank = "none"
    /\ document = [text |-> << >>, pages |-> << >>]
    /\ result = << >>

\* One more word on the last line of the block; a line is kept in x0 order.
BlockAddWord(w) ==
    /\ pc = "block"
    /\ nlines < MaxBlockWords
    /\ LET n == Len(current_block)
           last == current_block[n]
       IN /\ w.top = last[1].top
          /\ w.x0 >= last[Len(last)].x0
          /\ current_block' = [current_block EXCEPT ![n] = Append(@, Tag(<<w>>, 1)[1])]
    /\ nlines' = nlines + 1
    /\ UNCHANGED <<line_read, twoVars, amountVars, groupVars, parseVars, dialect, year, pc, page_no, reading, column_boundaries,
                   in_transaction_section, all_transactions, transaction_blocks,
                   stopped, nocol_pages>>

\* banamex: a continuation line begins under the block, with w as its first word.
BlockAddLine(w) ==
    /\ pc = "block"
    /\ dialect = "banamex"
    /\ nlines < MaxBlockWords
    /\ w.top = current_block[Len(current_block)][1].top + 10
    /\ current_block' = Append(current_block, Tag(<<w>>, 1))
    /\ nlines' = nlines + 1
    /\ UNCHANGED <<line_read, twoVars, amountVars, groupVars, parseVars, dialect, year, pc, page_no, reading, column_boundaries,
                   in_transaction_section, all_transactions, transaction_blocks,
                   stopped, nocol_pages>>

\* The block is turned into its transaction.
BlockEmit ==
    /\ pc = "block"
    /\ pc' = "emitted"
    /\ all_transactions' =
           IF dialect = "banamex" THEN BanamexBlock(current_block, column_boundaries, year)
           ELSE << DebitoTransaction(current_block[1], current_block[1],
                                     column_boundaries, year) >>
    /\ UNCHANGED <<line_read, twoVars, amountVars, groupVars, parseVars, dialect, year, page_no, nlines, reading, column_boundaries,
                   in_transaction_section, transaction_blocks, current_block,
                   stopped, nocol_pages>>

NextBlock ==
    \/ \E w \in BlockWords(300) \cup BlockWords(310) : BlockAddWord(w)
    \/ \E w \in BlockWords(310) : BlockAddLine(w)
    \/ BlockEmit

SpecBlock == InitBlock /\ [][NextBlock]_vars

\* ------------------------------------------------------ calendar dates

Digits == <<"0", "1", "2", "3", "4", "5", "6", "7", "8", "9">>

\* A number below 100 as two digits.
Str2(n) == Digits[(n \div 10) + 1] \o Digits[(n % 10) + 1]

YearStrs == {"2023", "2024", "2025"}

DaysIn(y, m) ==
    IF m = 2 THEN (IF y = "2024" THEN 29 ELSE 28)
    ELSE IF m \in {4, 6, 9, 11} THEN 30 ELSE 31

\* The zero-padded YYYY-MM-DD strings that name a day of the calendar.
ValidISO ==
    UNION { { y \o "-" \o Str2(m) \o "-" \o Str2(d) : d \in 1..DaysIn(y, m) } :
            <<y, m>> \in YearStrs \X (1..12) }

\* ------------------------------------------------------------- metadata
\* The text of a document is the sequence of its lines.  A regular expression
\* is the table of the lines of the alphabet it matches: it gives the groups
\* of the match, or None.

None == << >>
Some(x) == << x >>

Min(S) == CHOOSE x \in S : \A y \in S : x <= y

\* re.search(pattern, text): the first match in the text, from the matches of
\* the pattern on each line.
Search(matches) ==
    LET hits == {i \in DOMAIN matches : matches[i] # None}
    IN IF hits = {} THEN None ELSE matches[Min(hits)]

\* int(group) of a movement count.
IntOf(t) == CASE t = "2" -> 2 [] t = "3" -> 3

\* The days, month words and month abbreviations of the period alphabet.
PeriodDays == {"1", "01", "28", "30", "31"}
PeriodMonths == {"febrero", "febrer"}
PeriodAbbrs == {"FEB", "ENE"}
PeriodNums == {"02"}

\* The year part of a YYYY-MM-DD string.
YearOfISO(iso) ==
    CHOOSE y \in YearStrs :
        \E m \in 0..12, d \in 0..32 : iso = y \o "-" \o Str2(m) \o "-" \o Str2(d)

\* ------------------------------------------------- banamex metadata

\* r'CLABE Interbancaria\s+([0-9]{18})'
BanamexClabeRe(line) ==
    IF line = "CLABE Interbancaria 002180700123456789"
    THEN <<"002180700123456789">> ELSE None

banamex_parse_clabe(text) ==
    LET match == Search([i \in DOMAIN text |-> BanamexClabeRe(text[i])])
    IN IF match # None THEN Some(match[1]) ELSE None

\* r'(?:Registro Federal de Contribuyentes|RFC)\s*:?\s*([A-Z0-9]{12,13})'
BanamexRfcRe(line) ==
    IF line \in {"RFC ABC123456789", "Registro Federal de Contribuyentes: ABC123456789"}
    THEN <<"ABC123456789">> ELSE None

banamex_parse_rfc(text) ==
    LET match == Search([i \in DOMAIN text |-> BanamexRfcRe(text[i])])
    IN IF match # None THEN Some(match[1]) ELSE None

\* r'Nombre del Receptor\s+([^\n]+)'
BanamexReceptorRe(line) ==
    IF line = "Nombre del Receptor JUAN PEREZ LOPEZ" THEN <<"JUAN PEREZ LOPEZ">> ELSE None

\* r'CLIENTE:\s*([^\n]+)'
BanamexClienteRe(line) ==
    IF line = "CLIENTE: ACME SA DE CV" THEN <<"ACME SA DE CV">> ELSE None

\* r'(CPA CONTROL DE COMPROBANTES DIGITALES S DE RL DE C)'
BanamexRazonSocialRe(line) ==
    IF line = "CPA CONTROL DE COMPROBANTES DIGITALES S DE RL DE C" THEN <<line>> ELSE None

\* re.fullmatch(r"[A-Z...\s]{10,}", clean) on a line without the noise words
\* BANAMEX, ESTADO DE CUENTA, CLIENTE, RFC, C.R.
BanamexUpperLines ==
    {"DETALLE DE OPERACIONES", "GLOSARIO", "PAGO", "SALDO", "RETIROS DEPOSITOS SALDO",
     "RETIROS DEPOSITOS", "CPA CONTROL DE COMPROBANTES DIGITALES S DE RL DE C"}

BanamexNameLineRe(line) ==
    IF line \in BanamexUpperLines /\ Len(line) >= 10 THEN <<line>> ELSE None

banamex_parse_client_name(text) ==
    LET m1 == Search([i \in DOMAIN text |-> BanamexReceptorRe(text[i])])
        m2 == Search([i \in DOMAIN text |-> BanamexClienteRe(text[i])])
        m3 == Search([i \in DOMAIN text |-> BanamexRazonSocialRe(text[i])])
        m4 == Search([i \in DOMAIN text |-> BanamexNameLineRe(text[i])])
    IN IF m1 # None THEN Some(m1[1])
       ELSE IF m2 # None THEN Some(m2[1])
       ELSE IF m3 # None THEN Some(m3[1])
       ELSE IF m4 # None THEN Some(m4[1])
       ELSE None

\* r'Numero de cuenta de cheques\s+([0-9]+)' (the u accented), then
\* r'CONTRATO\s+([0-9]{10})'
BanamexChequesRe(line) ==
    IF line = "Numero de cuenta de cheques 7001234" THEN <<"7001234">> ELSE None

BanamexContratoRe(line) ==
    IF line = "CONTRATO 1234567890" THEN <<"1234567890">> ELSE None

banamex_parse_account_number(text) ==
    LET m1 == Search([i \in DOMAIN text |-> BanamexChequesRe(text[i])])
        m2 == Search([i \in DOMAIN text |-> BanamexContratoRe(text[i])])
    IN IF m1 # None THEN Some(m1[1])
       ELSE IF m2 # None THEN Some(m2[1])
       ELSE None

meses(mes) == CASE mes = "febrero" -> Some("02") [] OTHER -> None

\* r'(\d{1,2})\s+de\s+(\w+)\s+(\d{4})'
DeMesAnioRe(date_str) ==
    LET hits == {p \in PeriodDays \X PeriodMonths \X YearStrs :
                    date_str = p[1] \o " de " \o p[2] \o " " \o p[3]}
    IN IF hits = {} THEN None ELSE CHOOSE p \in hits : TRUE

\* r'(\d{2})/([A-Z]{3})/(\d{4})'
DiaAbbrAnioRe(date_str) ==
    LET hits == {p \in {d \in PeriodDays : Len(d) = 2} \X PeriodAbbrs \X YearStrs :
                    date_str = p[1] \o "/" \o p[2] \o "/" \o p[3]}
    IN IF hits = {} THEN None ELSE CHOOSE p \in hits : TRUE

\* r'(\d{1,2})\s+de\s+(\w+)'
DeMesRe(date_str) ==
    LET hits == {p \in PeriodDays \X PeriodMonths \X (YearStrs \cup {""}) :
                    date_str = p[1] \o " de " \o p[2] \o (IF p[3] = "" THEN "" ELSE " " \o p[3])}
    IN IF hits = {} THEN None ELSE CHOOSE p \in hits : TRUE

\* datetime.strptime(f"{d}/{abbr}/{y}", "%d/%b/%Y").strftime("%Y-%m-%d"), None
\* for ValueError; %b knows the English abbreviations.
StrptimeDbY(d, abbr, y) ==
    IF abbr = "FEB" /\ y \o "-02-" \o d \in ValidISO THEN Some(y \o "-02-" \o d) ELSE None

\* The _format_flexible_date_banamex in force (the second definition of the
\* module rebinds the name).
_format_flexible_date_banamex(date_str, default_year) ==
    LET m1 == DeMesAnioRe(date_str)
        m2 == DiaAbbrAnioRe(date_str)
        m3 == DeMesRe(date_str)
    IN IF m1 # None /\ meses(m1[2]) # None
       THEN Some(m1[3] \o "-" \o meses(m1[2])[1] \o "-" \o ZFill2(m1[1]))
       ELSE IF m2 # None /\ StrptimeDbY(m2[1], m2[2], m2[3]) # None
       THEN StrptimeDbY(m2[1], m2[2], m2[3])
       ELSE IF m3 # None /\ default_year # None /\ meses(m3[2]) # None
       THEN Some(default_year[1] \o "-" \o meses(m3[2])[1] \o "-" \o ZFill2(m3[1]))
       ELSE None

\* r'Per[ii]odo\s+del\s+(\d{1,2}\s+de\s+\w+)(?:\s+del)?\s+al\s+
\*   (\d{1,2}\s+de\s+\w+)(?:\s+del)?\s+(\d{4})'
BanamexPeriodoRe(line) ==
    LET hits == {p \in PeriodDays \X PeriodMonths \X PeriodDays \X PeriodMonths \X YearStrs :
                    line = "Periodo del " \o p[1] \o " de " \o p[2] \o " al "
                               \o p[3] \o " de " \o p[4] \o " del " \o p[5]}
    IN IF hits = {} THEN None
       ELSE LET p == CHOOSE q \in hits : TRUE
            IN <<p[1] \o " de " \o p[2], p[3] \o " de " \o p[4], p[5]>>

\* r'RESUMEN DEL:\s*(\d{2}/[A-Z]{3}/\d{4})\s+AL\s+(\d{2}/[A-Z]{3}/\d{4})'
BanamexResumenRe(line) ==
    LET dates == {d \o "/" \o a \o "/" \o y :
                     d \in {x \in PeriodDays : Len(x) = 2}, a \in PeriodAbbrs, y \in YearStrs}
        hits == {p \in dates \X dates : line = "RESUMEN DEL: " \o p[1] \o " AL " \o p[2]}
    IN IF hits = {} THEN None ELSE CHOOSE p \in hits : TRUE

\* banamex _parse_period: (periodo_inicial, periodo_final)
banamex_parse_period(text) ==
    LET m1 == Search([i \in DOMAIN text |-> BanamexPeriodoRe(text[i])])
        m2 == Search([i \in DOMAIN text |-> BanamexResumenRe(text[i])])
    IN IF m1 # None
       THEN <<_format_flexible_date_banamex(m1[1] \o " " \o m1[3], Some(m1[3])),
              _format_flexible_date_banamex(m1[2] \o " " \o m1[3], Some(m1[3]))>>
       ELSE IF m2 # None
       THEN <<_format_flexible_date_banamex(m2[1], None),
              _format_flexible_date_banamex(m2[2], None)>>
       ELSE <<None, None>>

\* r'Saldo anterior\s+\$?([\d,]+\.\d{2})'
BanamexSaldoAnteriorRe(line) ==
    IF line = "Saldo anterior $1,000.00" THEN <<"1,000.00">> ELSE None

\* r'(?:SALDO AL CORTE|SALDO AL \d{1,2} DE \w+ DE \d{4})\s+\$?([\d,]+\.\d{2})'
BanamexSaldoCorteRe(line) ==
    IF line \in {"SALDO AL CORTE $1,200.00", "SALDO AL 28 DE FEBRERO DE 2023 $1,200.00"}
    THEN <<"1,200.00">> ELSE None

\* banamex _parse_balances: (initial_balance, final_balance), in cents
banamex_parse_balances(text) ==
    LET match_ini == Search([i \in DOMAIN text |-> BanamexSaldoAnteriorRe(text[i])])
        match_fin == Search([i \in DOMAIN text |-> BanamexSaldoCorteRe(text[i])])
    IN <<IF match_ini # None THEN _clean_amount(match_ini[1]) ELSE 0,
         IF match_fin # None THEN _clean_amount(match_fin[1]) ELSE 0>>

\* r'\(?\+\)?\s*(\d+)\s*Depositos\s+\$?([\d,]+\.\d{2})' (the o accented)
BanamexDepositosCountRe(line) ==
    IF line = "(+) 2 Depositos $500.00" THEN <<"2", "500.00">> ELSE None

\* r'Depositos\s+([\d,]+\.\d{2})' (the o accented)
BanamexDepositosRe(line) ==
    IF line = "Depositos 500.00" THEN <<"500.00">> ELSE None

\* r'\(?\-\)?\s*(\d+)\s*Retiros(?:/Otros cargos)?\s+\$?([\d,]+\.\d{2})'
BanamexRetirosCountRe(line) ==
    IF line = "(-) 3 Retiros $300.00" THEN <<"3", "300.00">> ELSE None

\* r'Retiros/Otros cargos\s+([\d,]+\.\d{2})'
BanamexRetirosRe(line) ==
    IF line = "Retiros/Otros cargos 300.00" THEN <<"300.00">> ELSE None

\* banamex _parse_totals: (imp_c, mov_c, imp_a, mov_a)
banamex_parse_totals(text) ==
    LET a1 == Search([i \in DOMAIN text |-> BanamexDepositosCountRe(text[i])])
        a2 == Search([i \in DOMAIN text |-> BanamexDepositosRe(text[i])])
        c1 == Search([i \in DOMAIN text |-> BanamexRetirosCountRe(text[i])])
        c2 == Search([i \in DOMAIN text |-> BanamexRetirosRe(text[i])])
        imp_a == IF a1 # None THEN _clean_amount(a1[2])
                 ELSE IF a2 # None THEN _clean_amount(a2[1]) ELSE 0
        mov_a == IF a1 # None THEN IntOf(a1[1]) ELSE 0
        imp_c == IF c1 # None THEN _clean_amount(c1[2])
                 ELSE IF c2 # None THEN _clean_amount(c2[1]) ELSE 0
        mov_c == IF c1 # None THEN IntOf(c1[1]) ELSE 0
    IN <<imp_c, mov_c, imp_a, mov_a>>

\* ---------------------------------------------------- bbva metadata

\* r'(?:No\.?\s+(?:de\s+)?)?Cuenta\s+CLABE\s+([\d\s]+)', the digits of the group
BbvaClabeRe(line) ==
    CASE line = "Cuenta CLABE 012345678901234567" -> <<"012345678901234567">>
      [] line = "Cuenta CLABE 0123456789" -> <<"0123456789">>
      [] OTHER -> None

bbva_parse_clabe(text) ==
    LET match == Search([i \in DOMAIN text |-> BbvaClabeRe(text[i])])
    IN IF match # None /\ Len(match[1]) = 18 THEN Some(match[1]) ELSE None

\* r'No\.\s+de\s+Tarjeta\s+([\d\s]+)', white space removed from the group
BbvaTarjetaRe(line) ==
    IF line = "No. de Tarjeta 4152313012345678" THEN <<"4152313012345678">> ELSE None

\* r'No\.?\s+(?:de\s+)?Cuenta\s+(\d+)'
BbvaCuentaRe(line) ==
    IF line = "No. de Cuenta 0123456789" THEN <<"0123456789">> ELSE None

bbva_parse_account_number(text) ==
    LET m1 == Search([i \in DOMAIN text |-> BbvaTarjetaRe(text[i])])
        m2 == Search([i \in DOMAIN text |-> BbvaCuentaRe(text[i])])
    IN IF m1 # None THEN Some(m1[1])
       ELSE IF m2 # None THEN Some(m2[1])
       ELSE None

\* r'Nombre\s+del\s+Receptor\s*:\s*(.+)'
BbvaReceptorRe(line) ==
    IF line = "Nombre del Receptor: JUAN PEREZ" THEN <<"JUAN PEREZ">> ELSE None

\* [A-Z...\s]{10,} holds the whole line.
BbvaUpperLines == {"JUAN PEREZ LOPEZ"}

\* r'BBVA\s*\n\s*([A-Z...\s]{10,}\b(?:SA\s+DE\s+CV|...)?)': a line that ends in
\* BBVA and the upper case line under it.
BbvaUnderLogo(text) ==
    LET hits == {i \in 1..(Len(text) - 1) :
                    text[i] = "BBVA" /\ text[i + 1] \in BbvaUpperLines /\ Len(text[i + 1]) >= 10}
    IN IF hits = {} THEN None ELSE <<text[Min(hits) + 1]>>

\* r'^R\.F\.C\s+[A-Z0-9]+' on the stripped line
BbvaRfcLineRe(line) == IF line = "R.F.C ABC123456789" THEN <<line>> ELSE None

\* r'^(No\.|Fecha|Periodo)' on the stripped line
BbvaNoFechaPeriodo(line) ==
    \/ line \in {"No. de Cuenta 0123456789", "No. de Tarjeta 4152313012345678"}
    \/ \E d \in {x \in PeriodDays : Len(x) = 2}, m \in PeriodNums \cup PeriodAbbrs :
          line = "Periodo DEL 01/" \o m \o "/2023 AL " \o d \o "/" \o m \o "/2023"

\* The nearest line above the R.F.C line that is longer than 10 characters and
\* does not begin with No., Fecha or Periodo.
BbvaAboveRfc(text) ==
    LET rfc == {i \in 1..Len(text) : BbvaRfcLineRe(text[i]) # None}
        above == IF rfc = {} THEN {}
                 ELSE {i \in 1..(Min(rfc) - 1) :
                          Len(text[i]) > 10 /\ ~BbvaNoFechaPeriodo(text[i])}
    IN IF above = {} THEN None
       ELSE <<text[CHOOSE i \in above : \A j \in above : j <= i]>>

bbva_parse_client_name(text) ==
    LET m1 == Search([i \in DOMAIN text |-> BbvaReceptorRe(text[i])])
        m2 == BbvaUnderLogo(text)
        m3 == BbvaAboveRfc(text)
    IN IF m1 # None THEN Some(m1[1])
       ELSE IF m2 # None THEN Some(m2[1])
       ELSE IF m3 # None THEN Some(m3[1])
       ELSE None

\* r'R\.?F\.?C\.?\s*[:]?\s*([A-Z0-9]{12,13})'
BbvaRfcRe(line) == IF line = "R.F.C ABC123456789" THEN <<"ABC123456789">> ELSE None

bbva_parse_rfc(text) ==
    LET match == Search([i \in DOMAIN text |-> BbvaRfcRe(text[i])])
    IN IF match # None THEN Some(match[1]) ELSE None

\* A date of the period line, as (day, month, year): dd/mm/yyyy or dd/MMM/yyyy.
BbvaDateParts(date_str) ==
    LET hits == {p \in {d \in PeriodDays : Len(d) = 2} \X (PeriodNums \cup PeriodAbbrs) \X YearStrs :
                    date_str = p[1] \o "/" \o p[2] \o "/" \o p[3]}
    IN IF hits = {} THEN None ELSE CHOOSE p \in hits : TRUE

\* bbva _format_flexible_date: upper case, "/" to "-", month abbreviations to
\* numbers, then strptime with "%d-%m-%Y" ("%d-%m-%y" rejects a year of four
\* digits); None when no format reads it.
_format_flexible_date(date_str) ==
    LET p == BbvaDateParts(date_str)
        mm == IF p[2] \in DOMAIN MONTH_MAP THEN MONTH_MAP[p[2]] ELSE p[2]
        iso == p[3] \o "-" \o mm \o "-" \o p[1]
    IN IF p # None /\ iso \in ValidISO THEN Some(iso) ELSE None

BbvaPeriodDates ==
    {d \o "/" \o m \o "/" \o y :
        d \in {x \in PeriodDays : Len(x) = 2}, m \in PeriodNums \cup PeriodAbbrs, y \in YearStrs}

\* debit: r'Periodo\s+(?:DEL\s+)?([\d]{2}\/(?:\w{3}|\d{2})\/\d{2,4})\s+AL\s+(...)'
BbvaPeriodoDebitoRe(line) ==
    LET hits == {p \in BbvaPeriodDates \X BbvaPeriodDates :
                    line = "Periodo DEL " \o p[1] \o " AL " \o p[2]}
    IN IF hits = {} THEN None ELSE CHOOSE p \in hits : TRUE

\* credit card: r'Periodo\s.*?Del\s+([\d\/]{8,10})\s+al\s+([\d\/]{8,10})'
BbvaPeriodoTcRe(line) ==
    LET m == BbvaPeriodoDebitoRe(line)
    IN IF m # None /\ \A i \in 1..2 : BbvaDateParts(m[i])[2] \in PeriodNums THEN m ELSE None

\* bbva _parse_period: (periodo_inicial, periodo_final)
bbva_parse_period(text, is_credit) ==
    LET match == IF is_credit THEN Search([i \in DOMAIN text |-> BbvaPeriodoTcRe(text[i])])
                 ELSE Search([i \in DOMAIN text |-> BbvaPeriodoDebitoRe(text[i])])
    IN IF match # None
       THEN <<_format_flexible_date(match[1]), _format_flexible_date(match[2])>>
       ELSE <<None, None>>

\* r'Saldo Inicial del Periodo\s*\+?\s*\$?\s*([\d,]+\.\d{2})'
BbvaSaldoInicialTcRe(line) ==
    IF line = "Saldo Inicial del Periodo $1,000.00" THEN <<"1,000.00">> ELSE None

\* r'Saldo al Corte\s*\$?\s*([\d,]+\.\d{2})'
BbvaSaldoCorteRe(line) ==
    IF line = "Saldo al Corte $1,200.00" THEN <<"1,200.00">> ELSE None

\* r'(?:Saldo\s+(?:de\s+)?Liquidacion\s+Inicial|Saldo\s+Inicial)\s*\+?\s*\$?([\d,]+\.\d{2})'
BbvaSaldoInicialRe(line) ==
    IF line = "Saldo Inicial $1,000.00" THEN <<"1,000.00">> ELSE None

\* r'(?:Saldo\s+(?:de\s+Operacion\s+)?Final)\s*(?:\(\+\))?\s*\$?([\d,]+\.\d{2})'
BbvaSaldoFinalRe(line) ==
    IF line = "Saldo Final $1,200.00" THEN <<"1,200.00">> ELSE None

\* bbva _parse_balances: (initial_balance, final_balance), in cents
bbva_parse_balances(text, is_credit) ==
    LET match_ini == IF is_credit THEN Search([i \in DOMAIN text |-> BbvaSaldoInicialTcRe(text[i])])
                     ELSE Search([i \in DOMAIN text |-> BbvaSaldoInicialRe(text[i])])
        match_fin == IF is_credit THEN Search([i \in DOMAIN text |-> BbvaSaldoCorteRe(text[i])])
                     ELSE Search([i \in DOMAIN text |-> BbvaSaldoFinalRe(text[i])])
    IN <<IF match_ini # None THEN _clean_amount(match_ini[1]) ELSE 0,
         IF match_fin # None THEN _clean_amount(match_fin[1]) ELSE 0>>

\* r'TOTAL IMPORTES:\s+\$\s*([\d,]+\.\d{2})\s+-\$\s*([\d,]+\.\d{2})'
BbvaTotalImportesRe(line) ==
    IF line = "TOTAL IMPORTES: $ 300.00 -$ 500.00" THEN <<"300.00", "500.00">> ELSE None

\* r'TOTAL IMPORTE CARGOS\s+([\d,]+\.\d{2})\s+TOTAL MOVIMIENTOS CARGOS\s+(\d+)'
BbvaTotalCargosRe(line) ==
    IF line = "TOTAL IMPORTE CARGOS 300.00 TOTAL MOVIMIENTOS CARGOS 3"
    THEN <<"300.00", "3">> ELSE None

\* r'TOTAL IMPORTE ABONOS\s+([\d,]+\.\d{2})\s+TOTAL MOVIMIENTOS ABONOS\s+(\d+)'
BbvaTotalAbonosRe(line) ==
    IF line = "TOTAL IMPORTE ABONOS 500.00 TOTAL MOVIMIENTOS ABONOS 2"
    THEN <<"500.00", "2">> ELSE None

\* bbva _parse_totals: (imp_c, mov_c, imp_a, mov_a)
bbva_parse_totals(text, is_credit) ==
    LET match == Search([i \in DOMAIN text |-> BbvaTotalImportesRe(text[i])])
        match_c == Search([i \in DOMAIN text |-> BbvaTotalCargosRe(text[i])])
        match_a == Search([i \in DOMAIN text |-> BbvaTotalAbonosRe(text[i])])
    IN IF is_credit
       THEN IF match # None
            THEN <<_clean_amount(match[1]), 0, _clean_amount(match[2]), 0>>
            ELSE <<0, 0, 0, 0>>
       ELSE <<IF match_c # None THEN _clean_amount(match_c[1]) ELSE 0,
              IF match_c # None THEN IntOf(match_c[2]) ELSE 0,
              IF match_a # None THEN _clean_amount(match_a[1]) ELSE 0,
              IF match_a # None THEN IntOf(match_a[2]) ELSE 0>>

\* "Saldo al Corte" in full_text and "No. de Tarjeta" in full_text
is_credit(text) ==
    /\ \E i \in 1..Len(text) : text[i] = "Saldo al Corte $1,200.00"
    /\ \E i \in 1..Len(text) : text[i] = "No. de Tarjeta 4152313012345678"

\* ------------------------------------------------------------- parse

\* "\n".join(page.extract_text() for page in pdf.pages), as lines: the lines
\* of the document that lie outside its transaction pages, then the text of
\* the lines of those pages.
RECURSIVE PagesText(_)
PagesText(pages) ==
    IF pages = << >> THEN << >>
    ELSE [i \in 1..Len(Head(pages).lines) |-> LineText(Head(pages).lines[i])]
             \o PagesText(Tail(pages))

FullText(doc) == doc.text \o PagesText(doc.pages)

\* sum(1 for t in transactions if t.get('Retiro', 0) > 0), and for 'Deposito'
CountRetiro(txs) == Cardinality({i \in 1..Len(txs) : txs[i].Retiro > 0})
CountDeposito(txs) == Cardinality({i \in 1..Len(txs) : txs[i].Deposito > 0})

Raised == [raised |-> "ValueError"]

\* banamex parse(pdf, year): the result, or Raised when
\* datetime.strptime(periodo_final, "%Y-%m-%d") rejects the period end.
banamex_parse(doc, yr) ==
    LET full_text == FullText(doc)
        periodo == banamex_parse_period(full_text)
        balances == banamex_parse_balances(full_text)
        totals == banamex_parse_totals(full_text)
    IN IF periodo[2] # None /\ periodo[2][1] \notin ValidISO THEN Raised
       ELSE LET effective_year == IF periodo[2] # None THEN YearOfISO(periodo[2][1]) ELSE yr
            IN [clabe_interbancaria |-> banamex_parse_clabe(full_text),
                rfc |-> banamex_parse_rfc(full_text),
                nom_cliente |-> banamex_parse_client_name(full_text),
                num_cuenta |-> banamex_parse_account_number(full_text),
                periodo_inicial |-> periodo[1],
                periodo_final |-> periodo[2],
                saldo_inicial |-> Some(balances[1]),
                saldo_final |-> Some(balances[2]),
                total_importe_cargos |-> Some(totals[1]),
                total_movimientos_cargo |-> Some(totals[2]),
                total_importe_abonos |-> Some(totals[3]),
                total_movimientos_abono |-> Some(totals[4]),
                movimientos |-> RunPass("banamex", doc.pages, effective_year)]

\* bbva parse(pdf, year)
bbva_parse(doc, yr) ==
    LET full_text == FullText(doc)
        credit == is_credit(full_text)
        periodo == bbva_parse_period(full_text, credit)
        balances == bbva_parse_balances(full_text, credit)
        totals == bbva_parse_totals(full_text, credit)
        transactions == IF credit THEN RunPass("tc", doc.pages, yr)
                        ELSE RunPass("debito", doc.pages, yr)
    IN [clabe_interbancaria |-> bbva_parse_clabe(full_text),
        rfc |-> bbva_parse_rfc(full_text),
        nom_cliente |-> bbva_parse_client_name(full_text),
        num_cuenta |-> bbva_parse_account_number(full_text),
        periodo_inicial |-> periodo[1],
        periodo_final |-> periodo[2],
        saldo_inicial |-> Some(balances[1]),
        saldo_final |-> Some(balances[2]),
        total_importe_cargos |-> Some(totals[1]),
        total_movimientos_cargo |->
            Some(IF credit THEN CountRetiro(transactions) ELSE totals[2]),
        total_importe_abonos |-> Some(totals[3]),
        total_movimientos_abono |->
            Some(IF credit THEN CountDeposito(transactions) ELSE totals[4]),
        movimientos |-> transactions]

\* ----------------------------------- SpecParse: parse(document, year)

Banks == {"banamex", "bbva"}

ParseYears == {"2024", "2025"}

\* The metadata lines of a statement, top to bottom, without the period line.
MetadataLines(b) ==
    IF b = "banamex"
    THEN << "CLIENTE: ACME SA DE CV", "RFC ABC123456789", "CONTRATO 1234567890",
            "CLABE Interbancaria 002180700123456789", "Saldo anterior $1,000.00",
            "(+) 2 Depositos $500.00", "(-) 3 Retiros $300.00", "SALDO AL CORTE $1,200.00" >>
    ELSE << "Nombre del Receptor: JUAN PEREZ", "No. de Cuenta 0123456789",
            "No. de Tarjeta 4152313012345678", "Cuenta CLABE 012345678901234567",
            "R.F.C ABC123456789", "Saldo Inicial $1,000.00", "Saldo Final $1,200.00",
            "Saldo Inicial del Periodo $1,000.00", "Saldo al Corte $1,200.00",
            "TOTAL IMPORTE CARGOS 300.00 TOTAL MOVIMIENTOS CARGOS 3",
            "TOTAL IMPORTE ABONOS 500.00 TOTAL MOVIMIENTOS ABONOS 2",
            "TOTAL IMPORTES: $ 300.00 -$ 500.00" >>

\* The period line of a statement: a real period, an end day the month does
\* not have, a month word or abbreviation the parser does not know.
PeriodLines(b) ==
    IF b = "banamex"
    THEN { "Periodo del 1 de febrero al 28 de febrero del 2023",
           "Periodo del 1 de febrero al 31 de febrero del 2023",
           "Periodo del 1 de febrero al 28 de febrer del 2023",
           "RESUMEN DEL: 01/FEB/2023 AL 28/FEB/2023",
           "RESUMEN DEL: 01/FEB/2023 AL 30/FEB/2023",
           "RESUMEN DEL: 01/ENE/2023 AL 31/ENE/2023" }
    ELSE { "Periodo DEL 01/02/2023 AL 28/02/2023",
           "Periodo DEL 01/02/2023 AL 31/02/2023",
           "Periodo DEL 01/FEB/2023 AL 28/FEB/2023" }

Keep(seq, idx) ==
    LET F[i \in 0..Len(seq)] ==
            IF i = 0 THEN << >>
            ELSE IF i \in idx THEN Append(F[i - 1], seq[i]) ELSE F[i - 1]
    IN F[Len(seq)]

\* The texts: every metadata line, every line but one, one line only, none;
\* with or without a period line on top.
Texts(b) ==
    LET all == MetadataLines(b)
        n == Len(all)
        picks == {1..n, {}} \cup {(1..n) \ {i} : i \in 1..n} \cup {{i} : i \in 1..n}
    IN {Keep(all, idx) : idx \in picks}
           \cup {<<p>> \o Keep(all, idx) : p \in PeriodLines(b), idx \in picks}

Page(header, lines) ==
    [words |-> Tag(header \o Flatten(lines), 1),
     lines |-> [i \in 1..Len((IF header = << >> THEN << >> ELSE <<header>>) \o lines) |->
                    Tag(((IF header = << >> THEN << >> ELSE <<header>>) \o lines)[i], 1)]]

\* The transaction pages of a document: none, or one page of the layout of
\* a pass with a start marker and a dated line.
Documents(b) ==
    IF b = "banamex"
    THEN { << >>,
           << Page(<< Label("RETIROS", 300, 340), Label("DEPOSITOS", 400, 440),
                      Label("SALDO", 500, 540) >>,
                   << << W("DETALLE DE OPERACIONES", 120, 200) >>,
                      << W("02", 50, 300), W("ENE", 80, 300), W("PAGO", 120, 300),
                         W("150.00", 320, 300) >> >>) >> }
    ELSE { << >>,
           << Page(<< Label("CARGOS", 300, 340), Label("ABONOS", 400, 440),
                      Label("SALDO", 500, 540) >>,
                   << << W("Detalle de Movimientos Realizados", 120, 200) >>,
                      << W("02/ENE", 50, 300), W("NOMINA", 120, 300),
                         W("200.00", 420, 300) >> >>) >>,
           << Page(<< >>,
                   << << W("Movimientos Efectuados Tarjeta Titular", 120, 200) >>,
                      << W("15/01/25", 50, 300), W("15/01/25", 80, 300), W("PAGO", 120, 300),
                         W("$150.00", 320, 300) >> >>) >> }

InitParse ==
    /\ bank \in Banks
    /\ year \in ParseYears
    /\ document \in [text : Texts(bank), pages : Documents(bank)]
    /\ result = None
    /\ pc = "call"
    /\ dialect = "none"
    /\ page_no = 0
    /\ nlines = 0
    /\ reading = FALSE
    /\ column_boundaries = NoBoundaries
    /\ in_transaction_section = FALSE
    /\ all_transactions = << >>
    /\ transaction_blocks = << >>
    /\ current_block = << >>
    /\ stopped = FALSE
    /\ nocol_pages = {}
    /\ gw_words = << >>
    /\ tolerance = 3
    /\ gw_lines = << >>
    /\ current_line = << >>
    /\ tok = << >>
    /\ amount = 0
    /\ invocations = << >>
    /\ interleaved = FALSE
    /\ line_read = << >>

\* banamex_parser.parse(pdf, year) returns or raises.
BanamexParse ==
    /\ pc = "call"
    /\ bank = "banamex"
    /\ LET r == banamex_parse(document, year)
       IN /\ result' = r
          /\ pc' = IF r = Raised THEN "raised" ELSE "returned"
    /\ UNCHANGED <<line_read, twoVars, amountVars, groupVars, dialect, year, page_no, nlines, reading, column_boundaries,
                   in_transaction_section, all_transactions, transaction_blocks,
                   current_block, stopped, nocol_pages, bank, document>>

\* bbva_parser.parse(pdf, year) returns.
BbvaParse ==
    /\ pc = "call"
    /\ bank = "bbva"
    /\ result' = bbva_parse(document, year)
    /\ pc' = "returned"
    /\ UNCHANGED <<line_read, twoVars, amountVars, groupVars, dialect, year, page_no, nlines, reading, column_boundaries,
                   in_transaction_section, all_transactions, transaction_blocks,
                   current_block, stopped, nocol_pages, bank, document>>

NextParse == BanamexParse \/ BbvaParse

SpecParse == InitParse /\ [][NextParse]_vars

\* ------------------------------ SpecCols: find_column_boundaries(page)
\* A page is filled with words, in extraction order, and the detector of the
\* dialect is run on it.  document.pages[1].words is the page.

ColDialects == {"banamex", "debito"}

\* Column labels in the upper and in the lower half of the page, at one or
\* two places, and a word that is no label.
HeaderWords(d) ==
    LET at(t, mid) == { [W(t, mid, top) EXCEPT !.page = 1] : top \in {100, 500} }
    IN IF d = "banamex"
       THEN at("RETIROS", 320) \cup at("DEPOSITOS", 420) \cup at("SALDO", 520)
                \cup at("SALDO", 620) \cup at("PAGO", 120)
       ELSE at("CARGOS", 320) \cup at("ABONOS", 420) \cup at("SALDO", 520)
                \cup at("SALDO", 620) \cup at("PAGO", 120)

InitCols ==
    /\ dialect \in ColDialects
    /\ year \in PassYears
    /\ pc = "page"
    /\ document = [text |-> << >>, pages |-> << [words |-> << >>, lines |-> << >>] >>]
    /\ bank = "none"
    /\ result = None
    /\ page_no = 1
    /\ nlines = 0
    /\ reading = FALSE
    /\ column_boundaries = NoBoundaries
    /\ in_transaction_section = FALSE
    /\ all_transactions = << >>
    /\ transaction_blocks = << >>
    /\ current_block = << >>
    /\ stopped = FALSE
    /\ nocol_pages = {}
    /\ gw_words = << >>
    /\ tolerance = 3
    /\ gw_lines = << >>
    /\ current_line = << >>
    /\ tok = << >>
    /\ amount = 0
    /\ invocations = << >>
    /\ interleaved = FALSE
    /\ line_read = << >>

\* One more word on the page.
PageAddWord(w) ==
    /\ pc = "page"
    /\ Len(document.pages[1].words) < MaxHeaderWords
    /\ document' = [document EXCEPT !.pages[1].words = Append(@, w)]
    /\ UNCHANGED <<line_read, twoVars, amountVars, groupVars, passVars, bank, result>>

\* banamex find_column_boundaries(page)
BanamexFind ==
    /\ pc = "page"
    /\ dialect = "banamex"
    /\ pc' = "found"
    /\ column_boundaries' = banamex_find_column_boundaries(document.pages[1].words)
    /\ UNCHANGED <<line_read, twoVars, amountVars, groupVars, dialect, year, page_no, nlines, reading, in_transaction_section,
                   all_transactions, transaction_blocks, current_block, stopped,
                   nocol_pages, parseVars>>

\* bbva find_column_boundaries(page)
BbvaFind ==
    /\ pc = "page"
    /\ dialect = "debito"
    /\ pc' = "found"
    /\ column_boundaries' = bbva_find_column_boundaries(document.pages[1].words)
    /\ UNCHANGED <<line_read, twoVars, amountVars, groupVars, dialect, year, page_no, nlines, reading, in_transaction_section,
                   all_transactions, transaction_blocks, current_block, stopped,
                   nocol_pages, parseVars>>

NextCols ==
    \/ \E w \in HeaderWords(dialect) : PageAddWord(w)
    \/ BanamexFind
    \/ BbvaFind

SpecCols == InitCols /\ [][NextCols]_vars

\* ------------------------- SpecLines: group_words_into_lines(words)
\* The loop of group_words_into_lines, a word at a time: `gw_words` is what the
\* caller has handed over so far, in extraction order.

\* sorted(current_line, key=lambda w: w["x0"]): a stable sort, by insertion.
RECURSIVE InsertByX0(_, _)
InsertByX0(sorted_line, word) ==
    IF sorted_line = << >> THEN << word >>
    ELSE IF sorted_line[Len(sorted_line)].x0 <= word.x0 THEN Append(sorted_line, word)
    ELSE Append(InsertByX0(SubSeq(sorted_line, 1, Len(sorted_line) - 1), word),
                sorted_line[Len(sorted_line)])

RECURSIVE InsertAllByX0(_)
InsertAllByX0(line) ==
    IF line = << >> THEN << >>
    ELSE InsertByX0(InsertAllByX0(SubSeq(line, 1, Len(line) - 1)), line[Len(line)])

\* For comparison: a line closed in the order its words arrived.
InArrivalOrder(line) == line

SortedByX0(line) == InsertAllByX0(line)

\* The tolerances a caller may pass; both parsers leave the default, 3.
GroupTolerances == {3, 7}

\* Words at three places across the page and at tops up to 10 units apart.
GroupWords ==
    { [text |-> "PAGO", x0 |-> x, x1 |-> x + 20, top |-> t, page |-> 1] :
          x \in {10, 30, 50}, t \in {100, 103, 106, 110} }

InitLines ==
    /\ pc = "group"
    /\ gw_words = << >>
    /\ tolerance \in GroupTolerances
    /\ gw_lines = << >>
    /\ current_line = << >>
    /\ tok = << >>
    /\ amount = 0
    /\ invocations = << >>
    /\ interleaved = FALSE
    /\ line_read = << >>
    /\ dialect = "none"
    /\ year \in PassYears
    /\ page_no = 0
    /\ nlines = 0
    /\ reading = FALSE
    /\ column_boundaries = NoBoundaries
    /\ in_transaction_section = FALSE
    /\ all_transactions = << >>
    /\ transaction_blocks = << >>
    /\ current_block = << >>
    /\ stopped = FALSE
    /\ nocol_pages = {}
    /\ bank = "none"
    /\ document = [text |-> << >>, pages |-> << >>]
    /\ result = None

\* The next word: words[0] opens the first line; a later word joins the
\* current line or closes it and opens the next.
GroupWord(word) ==
    /\ pc = "group"
    /\ Len(gw_words) < MaxGroupWords
    /\ gw_words' = Append(gw_words, word)
    /\ IF gw_words = << >>
       THEN /\ current_line' = << word >>
            /\ gw_lines' = gw_lines
       ELSE IF Abs(word.top - current_line[Len(current_line)].top) <= tolerance
       THEN /\ current_line' = Append(current_line, word)
            /\ gw_lines' = gw_lines
       ELSE /\ gw_lines' = Append(gw_lines, SortedByX0(current_line))
            /\ current_line' = << word >>
    /\ UNCHANGED <<line_read, twoVars, amountVars, passVars, parseVars, tolerance>>

\* No word is left: the current line is closed and the lines are returned
\* ([] when there was no word).
GroupReturn ==
    /\ pc = "group"
    /\ pc' = "grouped"
    /\ gw_lines' = IF gw_words = << >> THEN << >> ELSE Append(gw_lines, SortedByX0(current_line))
    /\ UNCHANGED <<line_read, twoVars, amountVars, dialect, year, page_no, nlines, reading, column_boundaries,
                   in_transaction_section, all_transactions, transaction_blocks,
                   current_block, stopped, nocol_pages, parseVars, gw_words, tolerance,
                   current_line>>

NextLinesStep ==
    \/ \E word \in GroupWords : GroupWord(word)
    \/ GroupReturn

SpecLines == InitLines /\ [][NextLinesStep]_vars

\* ------------------------------- SpecAmount: the amount normalizers
\* A token is the sequence of its characters, so that strip, replace,
\* rstrip, endswith and float are computed rather than tabulated.

IsDigit(c) == c \in {"0", "1", "2", "3", "4", "5", "6", "7", "8", "9"}

DigitVal(c) ==
    CASE c = "0" -> 0 [] c = "1" -> 1 [] c = "2" -> 2 [] c = "3" -> 3 [] c = "4" -> 4
      [] c = "5" -> 5 [] c = "6" -> 6 [] c = "7" -> 7 [] c = "8" -> 8 [] c = "9" -> 9

\* s.replace(c, '').
RECURSIVE Without(_, _)
Without(s, c) ==
    IF s = << >> THEN << >>
    ELSE IF Head(s) = c THEN Without(Tail(s), c)
    ELSE << Head(s) >> \o Without(Tail(s), c)

\* s.rstrip(c).
RECURSIVE RStrip(_, _)
RStrip(s, c) ==
    IF s # << >> /\ s[Len(s)] = c THEN RStrip(SubSeq(s, 1, Len(s) - 1), c) ELSE s

\* s.lstrip(c).
RECURSIVE LStrip(_, _)
LStrip(s, c) ==
    IF s # << >> /\ Head(s) = c THEN LStrip(Tail(s), c) ELSE s

\* s.strip(): the only whitespace of the alphabet is the blank.
Strip(s) == LStrip(RStrip(s, " "), " ")

\* s.endswith(c).
EndsWith(s, c) == s # << >> /\ s[Len(s)] = c

\* The value of a run of digits.
RECURSIVE DigitsVal(_)
DigitsVal(s) ==
    IF s = << >> THEN 0
    ELSE 10 * DigitsVal(SubSeq(s, 1, Len(s) - 1)) + DigitVal(s[Len(s)])

\* float(s) reads: blanks around, one optional sign, then digits with at most
\* one point among them and at least one digit.
FloatBody(s) ==
    LET t == Strip(s)
    IN  IF t # << >> /\ Head(t) \in {"-", "+"} THEN Tail(t) ELSE t

FloatAccepts(s) ==
    LET b == FloatBody(s)
    IN  /\ \A i \in 1..Len(b) : IsDigit(b[i]) \/ b[i] = "."
        /\ Cardinality({i \in 1..Len(b) : b[i] = "."}) <= 1
        /\ \E i \in 1..Len(b) : IsDigit(b[i])

\* float(s) in cents, for a token float accepts (no token of the alphabet has
\* more than two digits after the point).
FloatCents(s) ==
    LET b == FloatBody(s)
        points == {i \in 1..Len(b) : b[i] = "."}
        dot == IF points = {} THEN Len(b) + 1 ELSE CHOOSE i \in points : TRUE
        whole == SubSeq(b, 1, dot - 1)
        frac == SubSeq(b, dot + 1, Len(b))
        cents == IF Len(frac) = 0 THEN 0
                 ELSE IF Len(frac) = 1 THEN 10 * DigitVal(frac[1])
                 ELSE 10 * DigitVal(frac[1]) + DigitVal(frac[2])
        value == 100 * DigitsVal(whole) + cents
    IN  IF Head(Strip(s)) = "-" THEN 0 - value ELSE value

\* banamex _parse_amount_token.
_parse_amount_token(token) ==
    LET t == Strip(token)
        neg == EndsWith(t, "-")
        bare == Without(RStrip(t, "-"), ",")
        v == IF FloatAccepts(bare) THEN FloatCents(bare) ELSE 0
    IN  IF neg THEN 0 - v ELSE v

\* banamex _clean_amount, on the characters of its text.
banamex_clean_amount(text) ==
    IF Strip(text) = << >> THEN 0
    ELSE LET bare == Strip(Without(Without(text, "$"), ","))
         IN  IF FloatAccepts(bare) THEN FloatCents(bare) ELSE 0

\* bbva _clean_amount, on the characters of its text.
bbva_clean_amount(text) ==
    IF Strip(text) = << >> THEN 0
    ELSE LET bare == Strip(Without(text, ","))
         IN  IF FloatAccepts(bare) THEN FloatCents(bare) ELSE 0

\* Amount tokens as statements print them, and what is not an amount.
AmountTokens ==
    {
      << "1", ",", "6", "0", "0", ".", "0", "0" >>,      \* "1,600.00"
      << "6", "2", ".", "1", "8", "-" >>,                \* "62.18-"
      << "(", "5", "0", ".", "0", "0", ")" >>,           \* "(50.00)"
      << "$", "1", ",", "6", "0", "0", ".", "0", "0" >>, \* "$1,600.00"
      << >>,                                             \* ""
      << "a", "b", "c" >>,                               \* "abc"
      << "1", "5", "0", ".", "0", "0" >>,                \* "150.00"
      << " ", "1", "5", "0", ".", "0", "0", " " >>,      \* " 150.00 "
      << "-", "5", ".", "0", "0" >>,                     \* "-5.00"
      << "0", ".", "0", "0" >>,                          \* "0.00"
      << "$", "6", "2", ".", "1", "8", "-" >>,           \* "$62.18-"
      << "(", "1", ",", "6", "0", "0", ".", "0", "0", ")" >>, \* "(1,600.00)"
      << "$", " ", "1", "5", "0", ".", "0", "0" >>,      \* "$ 150.00"
      << "1", ",", "6", "0", "0", ".", "0", "0", "-" >>, \* "1,600.00-"
      << "-" >>,                                         \* "-"
      << "$" >>,                                         \* "$"
      << "." >>,                                         \* "."
      << "1", ".", "5" >>,                               \* "1.5"
      << "6", "2", ".", "1", "8" >>,                     \* "62.18"
      << "5", "0", ".", "0", "0" >>,                     \* "50.00"
      << "2" >>,                                         \* "2"
      << "1", ",", "2", "0", "0", ".", "0", "0" >>,      \* "1,200.00"
      << "-", "-", "5", ".", "0", "0" >>,                \* "--5.00"
      << "0", ".", "5", "0" >>,                          \* "0.50"
      << "(", "5", "0", ".", "0", "0" >>,                \* "(50.00"
      << "$", "(", "5", "0", ".", "0", "0", ")" >>,      \* "$(50.00)"
      << "+", "5", ".", "0", "0" >>,                     \* "+5.00"
      << " ", " " >>,                                    \* "  "
      << "5", "." >>,                                    \* "5."
      << ".", "5", "0" >>,                               \* ".50"
      << "1", ".", "2", ".", "3" >>,                     \* "1.2.3"
      << "2", "0", "0", ".", "0", "0" >> }               \* "200.00"

InitAmount ==
    /\ pc = "token"
    /\ tok \in AmountTokens
    /\ amount = 0
    /\ invocations = << >>
    /\ interleaved = FALSE
    /\ line_read = << >>
    /\ gw_words = << >>
    /\ tolerance = 3
    /\ gw_lines = << >>
    /\ current_line = << >>
    /\ dialect = "none"
    /\ year \in PassYears
    /\ page_no = 0
    /\ nlines = 0
    /\ reading = FALSE
    /\ column_boundaries = NoBoundaries
    /\ in_transaction_section = FALSE
    /\ all_transactions = << >>
    /\ transaction_blocks = << >>
    /\ current_block = << >>
    /\ stopped = FALSE
    /\ nocol_pages = {}
    /\ bank = "none"
    /\ document = [text |-> << >>, pages |-> << >>]
    /\ result = None

ParseAmountToken ==
    /\ pc = "token"
    /\ pc' = "_parse_amount_token"
    /\ amount' = _parse_amount_token(tok)
    /\ UNCHANGED <<line_read, twoVars, dialect, year, page_no, nlines, reading, column_boundaries,
                   in_transaction_section, all_transactions, transaction_blocks,
                   current_block, stopped, nocol_pages, parseVars, groupVars, tok>>

BanamexCleanAmount ==
    /\ pc = "token"
    /\ pc' = "banamex _clean_amount"
    /\ amount' = banamex_clean_amount(tok)
    /\ UNCHANGED <<line_read, twoVars, dialect, year, page_no, nlines, reading, column_boundaries,
                   in_transaction_section, all_transactions, transaction_blocks,
                   current_block, stopped, nocol_pages, parseVars, groupVars, tok>>

BbvaCleanAmount ==
    /\ pc = "token"
    /\ pc' = "bbva _clean_amount"
    /\ amount' = bbva_clean_amount(tok)
    /\ UNCHANGED <<line_read, twoVars, dialect, year, page_no, nlines, reading, column_boundaries,
                   in_transaction_section, all_transactions, transaction_blocks,
                   current_block, stopped, nocol_pages, parseVars, groupVars, tok>>

NextAmount ==
    \/ ParseAmountToken
    \/ BanamexCleanAmount
    \/ BbvaCleanAmount

SpecAmount == InitAmount /\ [][NextAmount]_vars

\* ------------------------------- SpecTwo: two passes, steps interleaved
\* Two calls of a transaction pass, each on its own document, as two request
\* threads make them. A call's record holds its arguments, its place in the
\* page and line loops, and its locals `s`.

Invocations == {1, 2}

TwoDialects == {"banamex", "debito"}

\* A page without a column header or with one of two layouts; below it the
\* start marker and a dated line, or a dated line alone.
TwoPages(d) ==
    IF d = "banamex"
    THEN { Page(h, l) :
             h \in { << >>,
                     << Label("RETIROS", 300, 340), Label("DEPOSITOS", 400, 440),
                        Label("SALDO", 500, 540) >>,
                     << Label("RETIROS", 300, 340), Label("DEPOSITOS", 350, 390),
                        Label("SALDO", 500, 540) >> },
             l \in { << << W("DETALLE DE OPERACIONES", 120, 200) >>,
                        << W("02", 50, 300), W("ENE", 80, 300), W("PAGO", 120, 300),
                           W("150.00", 320, 300) >> >>,
                     << << W("2", 50, 300), W("ENE", 80, 300), W("NOMINA", 120, 300),
                           W("200.00", 420, 300) >> >> } }
    ELSE { Page(h, l) :
             h \in { << >>,
                     << Label("CARGOS", 300, 340), Label("ABONOS", 400, 440),
                        Label("SALDO", 500, 540) >>,
                     << Label("CARGOS", 300, 340), Label("ABONOS", 350, 390),
                        Label("SALDO", 500, 540) >> },
             l \in { << << W("Detalle de Movimientos Realizados", 120, 200) >>,
                        << W("02/ENE", 50, 300), W("03/ENE", 80, 300), W("PAGO", 120, 300),
                           W("150.00", 320, 300) >> >>,
                     << << W("02/ENE", 50, 300), W("NOMINA", 120, 300),
                           W("200.00", 420, 300) >> >> } }

TwoDocuments(d) ==
    {<<p>> : p \in TwoPages(d)} \cup {<<p, q>> : p \in TwoPages(d), q \in TwoPages(d)}

TwoCalls ==
    UNION { { [dialect |-> d, year |-> "2025", pages |-> doc, page_no |-> 0, line_no |-> 0,
               pc |-> "running", s |-> PassStart, result |-> << >>] :
                 doc \in TwoDocuments(d) } : d \in TwoDialects }

\* For comparison: column boundaries kept where every call sees them, so that
\* a call that has none takes those another call has resolved.
SharedBoundaries(invs, i) ==
    LET others == {j \in DOMAIN invs : ~Falsy(invs[j].s.column_boundaries)}
    IN  IF Falsy(invs[i].s.column_boundaries) /\ others # {}
        THEN [invs[i].s EXCEPT !.column_boundaries =
                  invs[CHOOSE j \in others : TRUE].s.column_boundaries]
        ELSE invs[i].s

\* The locals of call i: its own.
OwnLocals(invs, i) == invs[i].s

\* The line loop of call i has a line to read.
LinesLeft(inv) ==
    /\ inv.page_no > 0
    /\ ~inv.s.brk
    /\ inv.line_no < Len(inv.pages[inv.page_no].lines)

\* Some call other than i has begun and not returned.
OtherUnderWay(i) ==
    \E j \in Invocations \ {i} :
        invocations[j].page_no > 0 /\ invocations[j].pc = "running"

InitTwo ==
    /\ pc = "two"
    /\ invocations \in [Invocations -> TwoCalls]
    /\ invocations[1].pages # invocations[2].pages
    /\ interleaved = FALSE
    /\ line_read = << >>
    /\ tok = << >>
    /\ amount = 0
    /\ gw_words = << >>
    /\ tolerance = 3
    /\ gw_lines = << >>
    /\ current_line = << >>
    /\ dialect = "none"
    /\ year \in PassYears
    /\ page_no = 0
    /\ nlines = 0
    /\ reading = FALSE
    /\ column_boundaries = NoBoundaries
    /\ in_transaction_section = FALSE
    /\ all_transactions = << >>
    /\ transaction_blocks = << >>
    /\ current_block = << >>
    /\ stopped = FALSE
    /\ nocol_pages = {}
    /\ bank = "none"
    /\ document = [text |-> << >>, pages |-> << >>]
    /\ result = None

\* Call i begins its next page.
TwoNextPage(i) ==
    LET inv == invocations[i]
    IN  /\ inv.pc = "running"
        /\ ~LinesLeft(inv)
        /\ inv.page_no < Len(inv.pages)
        /\ invocations' = [invocations EXCEPT ![i] =
               [inv EXCEPT !.page_no = @ + 1, !.line_no = 0,
                           !.s = PassPageHead(inv.dialect, OwnLocals(invocations, i),
                                              inv.pages[inv.page_no + 1].words)]]
        /\ interleaved' = (interleaved \/ OtherUnderWay(i))
        /\ UNCHANGED <<line_read, passVars, parseVars, groupVars, amountVars>>

\* Call i reads the next line of its page.
TwoReadLine(i) ==
    LET inv == invocations[i]
        page == inv.pages[inv.page_no]
    IN  /\ inv.pc = "running"
        /\ LinesLeft(inv)
        /\ invocations' = [invocations EXCEPT ![i] =
               [inv EXCEPT !.line_no = @ + 1,
                           !.s = PassLine(inv.dialect, OwnLocals(invocations, i),
                                          page.lines[inv.line_no + 1], page.words, inv.year)]]
        /\ interleaved' = (interleaved \/ OtherUnderWay(i))
        /\ UNCHANGED <<line_read, passVars, parseVars, groupVars, amountVars>>

\* Call i is through its pages and returns.
TwoReturn(i) ==
    LET inv == invocations[i]
    IN  /\ inv.pc = "running"
        /\ ~LinesLeft(inv)
        /\ inv.page_no = Len(inv.pages)
        /\ invocations' = [invocations EXCEPT ![i] =
               [inv EXCEPT !.pc = "returned",
                           !.result = PassFinish(inv.dialect, OwnLocals(invocations, i),
                                                 inv.year)]]
        /\ interleaved' = (interleaved \/ OtherUnderWay(i))
        /\ UNCHANGED <<line_read, passVars, parseVars, groupVars, amountVars>>

NextTwo ==
    \E i \in Invocations :
        \/ TwoNextPage(i)
        \/ TwoReadLine(i)
        \/ TwoReturn(i)

SpecTwo == InitTwo /\ [][NextTwo]_vars

\* --------------------------- SpecDebito: the line loop of parse_debito
\* One page of a bbva debit statement whose header has resolved the column
\* boundaries; its lines go through the line loop one by one.

\* Lines with and without a word that an ignore pattern matches, each kind
\* also holding the start marker, the stop marker, a date with an amount, or
\* plain text.
DebitoLines ==
    { << W("Detalle de Movimientos Realizados", 120, 300) >>,
      << W("Total de Movimientos", 120, 300) >>,
      << W("02/ENE", 50, 300), W("03/ENE", 80, 300), W("PAGO", 120, 300),
         W("150.00", 320, 300) >>,
      << W("NOMINA", 120, 300) >>,
      << W("PAGINA 1 / 3", 120, 300) >>,
      << W("Detalle de Movimientos Realizados", 120, 300), W("REFERENCIA", 200, 300) >>,
      << W("Total de Movimientos", 120, 300), W("CARGOS", 320, 300) >>,
      << W("02/ENE", 50, 300), W("03/ENE", 80, 300), W("PAGO", 120, 300),
         W("150.00", 320, 300), W("SALDO", 520, 300) >>,
      << W("NOMINA", 120, 300), W("ABONOS", 420, 300) >> }

InitDebito ==
    /\ dialect = "debito"
    /\ year \in PassYears
    /\ pc = "debito"
    /\ page_no = 1
    /\ nlines = 0
    /\ reading = TRUE
    /\ column_boundaries =
           bbva_find_column_boundaries(<< Label("CARGOS", 300, 340), Label("ABONOS", 400, 440),
                                          Label("SALDO", 500, 540) >>)
    /\ in_transaction_section = FALSE
    /\ all_transactions = << >>
    /\ transaction_blocks = << >>
    /\ current_block = << >>
    /\ stopped = FALSE
    /\ nocol_pages = {}
    /\ gw_words = << >>
    /\ tolerance = 3
    /\ gw_lines = << >>
    /\ current_line = << >>
    /\ tok = << >>
    /\ amount = 0
    /\ invocations = << >>
    /\ interleaved = FALSE
    /\ line_read = << >>
    /\ bank = "none"
    /\ document = [text |-> << >>, pages |-> << >>]
    /\ result = << >>

\* The next line of the page goes through the body of the line loop.
DebitoReadLine(line) ==
    /\ pc = "debito"
    /\ reading
    /\ nlines < MaxDebitoLines
    /\ nlines' = nlines + 1
    /\ line_read' = Tag(line, page_no)
    /\ SetLocals(DebitoLine(Locals, Tag(line, page_no), Tag(line, page_no), year))
    /\ UNCHANGED <<twoVars, amountVars, groupVars, parseVars, dialect, year, pc, page_no,
                   stopped, nocol_pages>>

\* The page is over, by its last line or by `break`: the pass returns.
DebitoReturn ==
    /\ pc = "debito"
    /\ pc' = "debito returned"
    /\ reading' = FALSE
    /\ UNCHANGED <<twoVars, amountVars, groupVars, parseVars, dialect, year, page_no, nlines,
                   column_boundaries, in_transaction_section, all_transactions,
                   transaction_blocks, current_block, stopped, nocol_pages, line_read>>

NextDebito ==
    \/ \E line \in DebitoLines : DebitoReadLine(line)
    \/ DebitoReturn

SpecDebito == InitDebito /\ [][NextDebito]_vars

\* ------------------------------------------------------------ the claims

\* C1: once a stop marker line has been processed in the detail section, the
\* tracker never is in the detail section again, on this page or a later one,
\* and no line read after it adds a transaction, opens a block or extends one.
C1_StopIsAbsorbing ==
    [][(stopped /\ pc' = "pages") =>
          /\ ~in_transaction_section'
          /\ all_transactions' = all_transactions
          /\ transaction_blocks' = transaction_blocks
          /\ current_block' = current_block]_vars

\* C4: no transaction of the result comes from a page that was processed while
\* no column boundaries were available.
C4_NoBoundariesNoTransactions ==
    \A i \in 1..Len(all_transactions) : all_transactions[i].page \notin nocol_pages

\* C7: the date of every transaction is null or a zero-padded YYYY-MM-DD string
\* that names a real day.
C7_DatesAreCalendarDates ==
    \A i \in 1..Len(all_transactions) :
        all_transactions[i].Fecha = NULL \/ all_transactions[i].Fecha \in ValidISO

\* C8: the charge and the credit of every transaction are >= 0.
C8_AmountsNonNegative ==
    \A i \in 1..Len(all_transactions) :
        all_transactions[i].Retiro >= 0 /\ all_transactions[i].Deposito >= 0

\* A line that reaches the date check of pass d while in the detail section.
Admitted(d, s, line_words) ==
    IF d = "banamex"
    THEN (s.in_transaction_section \/ BanamexHasStart(line_words)) /\ ~BanamexHasStop(line_words)
    ELSE IF d = "debito"
    THEN /\ s.in_transaction_section
         /\ ~is_ignore_line(line_words)
         /\ ~DebitoHasStart(line_words)
         /\ ~DebitoHasStop(line_words)
    ELSE s.in_transaction_section /\ ~TcHasStart(line_words) /\ ~TcHasStop(line_words)

LeadingDate(d, line_words) ==
    IF d = "banamex" THEN BanamexDateLine(line_words)
    ELSE IF d = "debito" THEN DebitoDateLine(line_words)
    ELSE TcDateLine(line_words)

\* The transactions begun so far: the blocks of banamex, open one included.
Begun(d, s) ==
    IF d = "banamex"
    THEN Len(s.transaction_blocks) + (IF s.current_block # << >> THEN 1 ELSE 0)
    ELSE Len(s.all_transactions)

\* The description of the most recent transaction, NULL when there is none (yet).
LastDescription(d, s, yr) ==
    IF d = "banamex"
    THEN IF s.current_block = << >> \/ Falsy(s.column_boundaries) THEN NULL
         ELSE LET t == BanamexBlock(s.current_block, s.column_boundaries, yr)
              IN IF t = << >> THEN NULL ELSE t[1].Descripcion
    ELSE IF s.all_transactions = << >> THEN NULL
         ELSE s.all_transactions[Len(s.all_transactions)].Descripcion

\* banamex: the accumulator of a block after the word loop.
BlockAcc(block, cb) ==
    BanamexWords([retiro |-> 0, deposito |-> 0, saldo |-> 0, description_parts |-> << >>],
                 Flatten(block), cb)

\* banamex: a numeric word whose midpoint is in a monetary column.
Monetary(word, cb) ==
    /\ IsNumeric(word.text)
    /\ \/ BanamexInRetiro(word, cb)
       \/ BanamexInDeposito(word, cb)
       \/ BanamexInSaldo(word, cb)

\* The texts of the words of a line that are not Monetary, in order.
RECURSIVE OutsideColumns(_, _)
OutsideColumns(line_words, cb) ==
    IF line_words = << >> THEN << >>
    ELSE (IF Monetary(Head(line_words), cb) THEN << >> ELSE << Head(line_words).text >>)
         \o OutsideColumns(Tail(line_words), cb)

\* The lines the running line loop may read next, as it would read them.
NextLines == { Tag(line, page_no) : line \in Lines(dialect) }

\* C2 as stated: an admitted line without a leading date never increases the
\* number of transactions emitted, and when there is a previous transaction
\* (or an open block) its text is appended to the description of the most
\* recent transaction after a single space.
C2_ContinuationTextAppended ==
    (pc = "pages" /\ reading) =>
        \A lw \in NextLines :
            (Admitted(dialect, Locals, lw) /\ ~LeadingDate(dialect, lw)) =>
                LET s == PassLine(dialect, Locals, lw, lw, year)
                IN /\ Len(PassFinish(dialect, s, year)) <= Len(PassFinish(dialect, Locals, year))
                   /\ LastDescription(dialect, Locals, year) # NULL =>
                          LastDescription(dialect, s, year) =
                              LastDescription(dialect, Locals, year) \o " " \o LineText(lw)

\* C2, the part that holds: an admitted line without a leading date never starts a
\* transaction.  bbva debit: when a transaction exists, the text of the line is
\* appended to the description of the last one after a single space.  banamex:
\* when a block is open the line joins it, and its words other than numeric
\* words in a monetary column are appended, in order, to the description words
\* of the block; without such numeric words the amounts of the block stay as they
\* are.  bbva credit card: the line is dropped.
C2_ContinuationNeverStartsTransaction ==
    (pc = "pages" /\ reading) =>
        \A lw \in NextLines :
            (Admitted(dialect, Locals, lw) /\ ~LeadingDate(dialect, lw)) =>
                LET s == PassLine(dialect, Locals, lw, lw, year)
                    cb == column_boundaries
                IN /\ Begun(dialect, s) = Begun(dialect, Locals)
                   /\ (dialect = "debito" /\ all_transactions # << >>) =>
                          s.all_transactions =
                              [all_transactions EXCEPT ![Len(all_transactions)].Descripcion =
                                                           @ \o " " \o LineText(lw)]
                   /\ (dialect = "banamex" /\ current_block # << >>) =>
                          /\ s.current_block = Append(current_block, lw)
                          /\ s.transaction_blocks = transaction_blocks
                          /\ ~Falsy(cb) =>
                                LET a0 == BlockAcc(current_block, cb)
                                    a1 == BlockAcc(s.current_block, cb)
                                IN /\ a1.description_parts =
                                          a0.description_parts \o OutsideColumns(lw, cb)
                                   /\ (\A i \in 1..Len(lw) : ~Monetary(lw[i], cb)) =>
                                          /\ a1.retiro = a0.retiro
                                          /\ a1.deposito = a0.deposito
                                          /\ a1.saldo = a0.saldo
                   /\ dialect = "tc" => s.all_transactions = all_transactions

\* Reached: banamex holds an open block of a date line and a continuation line
\* with a numeric word in the charge column, and boundaries to classify it.
C2_Witness ==
    /\ dialect = "banamex"
    /\ ~Falsy(column_boundaries)
    /\ Len(current_block) = 2
    /\ ~BanamexDateLine(current_block[2])
    /\ \E i \in 1..Len(current_block[2]) : Monetary(current_block[2][i], column_boundaries)

\* The charge and credit columns as the dialect widens them: banamex by its
\* lateral tolerance on both sides, bbva debit on the right only.
ChargeZone(d, cb) ==
    IF d = "banamex"
    THEN <<cb["retiro"][1] - BanamexLateral, cb["retiro"][2] + BanamexLateral>>
    ELSE <<cb["retiro"][1], cb["retiro"][2] + BbvaLateral>>

CreditZone(d, cb) ==
    IF d = "banamex"
    THEN <<cb["deposito"][1] - BanamexLateral, cb["deposito"][2] + BanamexLateral>>
    ELSE <<cb["deposito"][1], cb["deposito"][2] + BbvaLateral>>

\* The words of a sequence whose midpoint lies in the interval iv.
WordsIn(words, iv) == {i \in 1..Len(words) : MidWithin(words[i], iv[1], iv[2])}

PositiveAmount(word) == IsNumeric(word.text) /\ Cents(word.text) > 0

\* The words the transaction of the block is made of: all of them for
\* banamex, those of the date line for bbva debit.
BlockWordsOf(d, block) == IF d = "banamex" THEN Flatten(block) ELSE block[1]

CreditOnly(tx) == Len(tx) = 1 /\ tx[1].Deposito > 0 /\ tx[1].Retiro = 0

DatedIn(fecha, y) ==
    \E m \in 0..12, d \in 0..32 : fecha = y \o "-" \o Str2(m) \o "-" \o Str2(d)

\* C5: when the end date of the statement period is parsed, the transactions
\* that take their year from the parser are dated in the year of that end date;
\* the year argument of parse dates them only when no period end is parsed.
C5_PeriodYearDatesTransactions ==
    pc = "returned" =>
        LET used == IF result.periodo_final # None
                    THEN YearOfISO(result.periodo_final[1]) ELSE year
        IN \A i \in 1..Len(result.movimientos) :
               LET t == result.movimientos[i]
               IN (t.Banco # "BBVA TC" /\ t.Fecha # NULL) => DatedIn(t.Fecha, used)

\* C6: parse returns a result for every document text; it never raises.
C6_ParseNeverRaises == pc # "raised"

MetadataFields ==
    {"clabe_interbancaria", "rfc", "nom_cliente", "num_cuenta", "periodo_inicial",
     "periodo_final", "saldo_inicial", "saldo_final", "total_importe_cargos",
     "total_movimientos_cargo", "total_importe_abonos", "total_movimientos_abono"}

\* Some pattern of field f matches the text (a period pattern matches when a
\* date comes out of it).
BanamexMatched(f, text) ==
    CASE f = "clabe_interbancaria" -> (\E i \in DOMAIN text : BanamexClabeRe(text[i]) # None)
      [] f = "rfc" -> (\E i \in DOMAIN text : BanamexRfcRe(text[i]) # None)
      [] f = "nom_cliente" ->
            \/ (\E i \in DOMAIN text : BanamexReceptorRe(text[i]) # None)
            \/ (\E i \in DOMAIN text : BanamexClienteRe(text[i]) # None)
            \/ (\E i \in DOMAIN text : BanamexRazonSocialRe(text[i]) # None)
            \/ (\E i \in DOMAIN text : BanamexNameLineRe(text[i]) # None)
      [] f = "num_cuenta" ->
            \/ (\E i \in DOMAIN text : BanamexChequesRe(text[i]) # None)
            \/ (\E i \in DOMAIN text : BanamexContratoRe(text[i]) # None)
      [] f = "periodo_inicial" -> banamex_parse_period(text)[1] # None
      [] f = "periodo_final" -> banamex_parse_period(text)[2] # None
      [] f = "saldo_inicial" -> (\E i \in DOMAIN text : BanamexSaldoAnteriorRe(text[i]) # None)
      [] f = "saldo_final" -> (\E i \in DOMAIN text : BanamexSaldoCorteRe(text[i]) # None)
      [] f = "total_importe_cargos" ->
            \/ (\E i \in DOMAIN text : BanamexRetirosCountRe(text[i]) # None)
            \/ (\E i \in DOMAIN text : BanamexRetirosRe(text[i]) # None)
      [] f = "total_movimientos_cargo" ->
            (\E i \in DOMAIN text : BanamexRetirosCountRe(text[i]) # None)
      [] f = "total_importe_abonos" ->
            \/ (\E i \in DOMAIN text : BanamexDepositosCountRe(text[i]) # None)
            \/ (\E i \in DOMAIN text : BanamexDepositosRe(text[i]) # None)
      [] f = "total_movimientos_abono" ->
            (\E i \in DOMAIN text : BanamexDepositosCountRe(text[i]) # None)

\* The movement counts of a credit card statement are counted from its
\* transactions: no pattern stands behind them.
BbvaMatched(f, text) ==
    LET credit == is_credit(text)
    IN CASE f = "clabe_interbancaria" -> bbva_parse_clabe(text) # None
         [] f = "rfc" -> (\E i \in DOMAIN text : BbvaRfcRe(text[i]) # None)
         [] f = "nom_cliente" ->
               \/ (\E i \in DOMAIN text : BbvaReceptorRe(text[i]) # None)
               \/ BbvaUnderLogo(text) # None
               \/ BbvaAboveRfc(text) # None
         [] f = "num_cuenta" ->
               \/ (\E i \in DOMAIN text : BbvaTarjetaRe(text[i]) # None)
               \/ (\E i \in DOMAIN text : BbvaCuentaRe(text[i]) # None)
         [] f = "periodo_inicial" -> bbva_parse_period(text, credit)[1] # None
         [] f = "periodo_final" -> bbva_parse_period(text, credit)[2] # None
         [] f = "saldo_inicial" ->
               IF credit THEN (\E i \in DOMAIN text : BbvaSaldoInicialTcRe(text[i]) # None)
               ELSE (\E i \in DOMAIN text : BbvaSaldoInicialRe(text[i]) # None)
         [] f = "saldo_final" ->
               IF credit THEN (\E i \in DOMAIN text : BbvaSaldoCorteRe(text[i]) # None)
               ELSE (\E i \in DOMAIN text : BbvaSaldoFinalRe(text[i]) # None)
         [] f = "total_importe_cargos" ->
               IF credit THEN (\E i \in DOMAIN text : BbvaTotalImportesRe(text[i]) # None)
               ELSE (\E i \in DOMAIN text : BbvaTotalCargosRe(text[i]) # None)
         [] f = "total_movimientos_cargo" ->
               \/ credit
               \/ (\E i \in DOMAIN text : BbvaTotalCargosRe(text[i]) # None)
         [] f = "total_importe_abonos" ->
               IF credit THEN (\E i \in DOMAIN text : BbvaTotalImportesRe(text[i]) # None)
               ELSE (\E i \in DOMAIN text : BbvaTotalAbonosRe(text[i]) # None)
         [] f = "total_movimientos_abono" ->
               \/ credit
               \/ (\E i \in DOMAIN text : BbvaTotalAbonosRe(text[i]) # None)

Matched(f) ==
    IF bank = "banamex" THEN BanamexMatched(f, FullText(document))
    ELSE BbvaMatched(f, FullText(document))

\* C9: in the result of parse, a metadata field none of whose patterns matches
\* the text of the document is null, and a field with a matching pattern is
\* extracted whatever other fields are missed.
C9_UnmatchedFieldIsNull ==
    pc = "returned" =>
        \A f \in MetadataFields :
            /\ ~Matched(f) => result[f] = None
            /\ Matched(f) => result[f] # None

\* A word the detector of dialect d takes for the label of a role: banamex
\* looks in the upper half of the page for words that begin with the label,
\* bbva anywhere for words equal to it.
IsLabel(d, role, word) ==
    IF d = "banamex"
    THEN /\ 2 * word.top < PageHeight
         /\ CASE role = "retiro" -> StartsRetiro(word.text)
              [] role = "deposito" -> StartsDeposito(word.text)
              [] role = "saldo" -> StartsSaldo(word.text)
    ELSE Upper(word.text) = (CASE role = "retiro" -> "CARGOS"
                               [] role = "deposito" -> "ABONOS"
                               [] role = "saldo" -> "SALDO")

\* The label of the role is resolved on the page.
Resolved(d, role, words) == \E i \in 1..Len(words) : IsLabel(d, role, words[i])

\* C10: find_column_boundaries returns null whenever the charge label or the
\* credit label is not resolved on the page; what it returns otherwise holds
\* both roles, never the balance role alone or one role alone.
C10_NullWithoutChargeAndCredit ==
    pc = "found" =>
        LET words == document.pages[1].words
        IN /\ ~(Resolved(dialect, "retiro", words) /\ Resolved(dialect, "deposito", words))
                  => column_boundaries = NoBoundaries
           /\ column_boundaries # NoBoundaries
                  => {"retiro", "deposito"} \subseteq DOMAIN column_boundaries

\* Reached: the balance label and the credit label are resolved on a banamex
\* page, the charge label is not, and the detector has returned null.
C10_Witness ==
    /\ pc = "found"
    /\ dialect = "banamex"
    /\ LET words == document.pages[1].words
       IN /\ Resolved(dialect, "saldo", words)
          /\ Resolved(dialect, "deposito", words)
          /\ ~Resolved(dialect, "retiro", words)
    /\ column_boundaries = NoBoundaries

\* How often word w occurs in a sequence of words.
Occurrences(seq, w) == Cardinality({i \in 1..Len(seq) : seq[i] = w})

\* C11: the lines group_words_into_lines returns hold the words it was given,
\* each as often as it was given (so as many words in all), and the words of
\* every line are in non-decreasing order of x0.
C11_LinesKeepWordsSorted ==
    pc = "grouped" =>
        /\ Len(Flatten(gw_lines)) = Len(gw_words)
        /\ \A w \in GroupWords : Occurrences(Flatten(gw_lines), w) = Occurrences(gw_words, w)
        /\ \A k \in 1..Len(gw_lines) :
               \A i, j \in 1..Len(gw_lines[k]) : i < j => gw_lines[k][i].x0 <= gw_lines[k][j].x0

\* Reached: three words given right to left on one line, and one on a line
\* below, returned as two lines, the first in left to right order.
C11_Witness ==
    /\ pc = "grouped"
    /\ Len(gw_words) = 4
    /\ gw_words[1].x0 > gw_words[2].x0 /\ gw_words[2].x0 > gw_words[3].x0
    /\ Len(gw_lines) = 2
    /\ Len(gw_lines[1]) = 3
    /\ gw_lines[1][1] = gw_words[3] /\ gw_lines[1][3] = gw_words[1]

\* C18: every word group_words_into_lines puts in a line has its top within
\* the tolerance of the top of the word that opened the line (current_line is
\* in arrival order, so the opening word is its first).
C18_WordsNearAnchor ==
    \A i \in 1..Len(current_line) :
        Abs(current_line[i].top - current_line[1].top) <= tolerance

\* The token is enclosed in parentheses.
Enclosed(t) == Len(t) >= 2 /\ t[1] = "(" /\ t[Len(t)] = ")"

\* The value C12 gives a token: currency symbol and thousands separators
\* stripped, negated for a trailing minus or enclosing parentheses, 0 for what
\* is then no number.
Normalized(t) ==
    LET s == Strip(Without(Without(t, "$"), ","))
        negated == EndsWith(s, "-") \/ Enclosed(s)
        body == IF Enclosed(s) THEN SubSeq(s, 2, Len(s) - 1) ELSE RStrip(s, "-")
        value == IF FloatAccepts(body) THEN FloatCents(body) ELSE 0
    IN  IF negated THEN 0 - value ELSE value

\* C12: every amount normalizer returns, for every token, the value with the
\* currency symbol and the thousands separators stripped, negated when the
\* token ends in a minus sign or stands in parentheses ("62.18-" gives -62.18,
\* "(50.00)" gives -50.00), and 0.0 for an empty or unparsable token.
C12_AmountNormalized ==
    pc \in {"_parse_amount_token", "banamex _clean_amount", "bbva _clean_amount"} =>
        amount = Normalized(tok)

\* C13: of two passes on different documents whose steps interleave, each
\* returns what it returns when it runs alone on its document.
C13_InterleavedAsAlone ==
    pc = "two" =>
        \A i \in Invocations :
            invocations[i].pc = "returned" =>
                invocations[i].result =
                    RunPass(invocations[i].dialect, invocations[i].pages, invocations[i].year)

\* Reached: both calls have returned transactions, after steps of one fell
\* between steps of the other; the first read its boundaries on its first page
\* and the second had no header at all.
C13_Witness ==
    /\ pc = "two"
    /\ interleaved
    /\ \A i \in Invocations : invocations[i].pc = "returned"
    /\ invocations[1].result # << >>
    /\ ~Falsy(invocations[1].s.column_boundaries)
    /\ Falsy(invocations[2].s.column_boundaries)
    /\ invocations[1].dialect = invocations[2].dialect

\* The line holds the start marker of pass d.
HasStart(d, line_words) ==
    IF d = "banamex" THEN BanamexHasStart(line_words)
    ELSE IF d = "debito" THEN DebitoHasStart(line_words)
    ELSE TcHasStart(line_words)

\* C14: a start marker line met before the detail section has begun opens the
\* section, on whichever page it stands, a page without column boundaries
\* included.
C14_StartMarkerOpensDetail ==
    [][\A line \in Lines(dialect) :
           ( /\ HasStart(dialect, Tag(line, page_no))
             /\ ~in_transaction_section
             /\ ~stopped
             /\ \/ UnreadLine(line)
                \/ \E stray \in Strays(dialect, line) : ReadLine(line, stray) )
           => in_transaction_section']_vars

\* The words of a block in the charge role, and in the credit role: the charge
\* column is asked first.
ChargeWords(d, words, cb) == WordsIn(words, ChargeZone(d, cb))

CreditWords(d, words, cb) == WordsIn(words, CreditZone(d, cb)) \ ChargeWords(d, words, cb)

\* The values of the words at the indices idx, added up.
RECURSIVE SumOf(_, _)
SumOf(words, idx) ==
    IF idx = {} THEN 0
    ELSE LET i == CHOOSE j \in idx : TRUE
         IN  _clean_amount(words[i].text) + SumOf(words, idx \ {i})

\* C15: the charge of an emitted transaction is the sum of the amounts of the
\* words of its block in the charge role, and its credit the sum of those in
\* the credit role, in both dialects that classify words by column.
C15_AmountsAddUp ==
    (pc = "emitted" /\ all_transactions # << >>) =>
        LET words == BlockWordsOf(dialect, current_block)
            cb == column_boundaries
        IN /\ all_transactions[1].Retiro = SumOf(words, ChargeWords(dialect, words, cb))
           /\ all_transactions[1].Deposito = SumOf(words, CreditWords(dialect, words, cb))

\* The balance column as the dialect widens it; banamex has none when the
\* header had no balance label.
BalanceZone(d, cb) ==
    IF d = "banamex"
    THEN IF "saldo" \in DOMAIN cb
         THEN <<cb["saldo"][1] - BanamexLateral, cb["saldo"][2] + BanamexLateral>>
         ELSE << 1, 0 >>
    ELSE <<cb["saldo"][1], cb["saldo"][2] + BbvaSaldoLateral>>

\* The words of a block in the balance role: the charge and the credit column
\* are asked first, and banamex asks the columns for numbers only.
BalanceWords(d, words, cb) ==
    { i \in WordsIn(words, BalanceZone(d, cb)) :
          /\ i \notin ChargeWords(d, words, cb)
          /\ i \notin CreditWords(d, words, cb)
          /\ (d = "banamex" => IsNumeric(words[i].text)) }

\* The last value other than 0 among the words at the indices idx, 0 if none.
LastNonZero(words, idx) ==
    LET nz == {i \in idx : _clean_amount(words[i].text) # 0}
    IN  IF nz = {} THEN 0
        ELSE _clean_amount(words[CHOOSE i \in nz : \A j \in nz : j <= i].text)

\* C16: the balance of an emitted transaction is the last value other than 0
\* among the words of its block in the balance column, in their order; it is
\* no sum, and a later word of value 0 does not replace an earlier value.
C16_BalanceIsLastNonZero ==
    (pc = "emitted" /\ all_transactions # << >>) =>
        LET words == BlockWordsOf(dialect, current_block)
        IN all_transactions[1].Saldo =
               LastNonZero(words, BalanceWords(dialect, words, column_boundaries))

\* The texts the description of a block is assembled from, in order.
DescriptionParts(d, block, cb) ==
    LET start == [retiro |-> 0, deposito |-> 0, saldo |-> 0, description_parts |-> << >>]
    IN  IF d = "banamex" THEN BanamexWords(start, Flatten(block), cb).description_parts
        ELSE DebitoWords(start, block[1], cb).description_parts

\* The texts begin with the date tokens of the dialect: a day and a month for
\* banamex, a dd/mmm date for bbva debit.
LeadsWithDate(d, parts) ==
    IF d = "banamex" THEN Len(parts) >= 2 /\ IsDay12(parts[1]) /\ IsUpper3(parts[2])
    ELSE Len(parts) >= 1 /\ IsDebitoDate(parts[1])

\* The description is what is left of the texts from some place on, and what
\* is left begins with date tokens.
BeginsWithDate(d, desc, parts) ==
    \E k \in 1..Len(parts) :
        LET rest == SubSeq(parts, k, Len(parts))
        IN  desc = Join(rest) /\ LeadsWithDate(d, rest)

\* C17: the description of an emitted transaction does not begin with the date
\* tokens that lead its block, also when the block holds nothing but the date
\* and when the line has one date, not two.
C17_DescriptionWithoutDate ==
    (pc = "emitted" /\ all_transactions # << >>) =>
        ~BeginsWithDate(dialect, all_transactions[1].Descripcion,
                        DescriptionParts(dialect, current_block, column_boundaries))

\* What the detector of dialect d finds on a page.
Detected(d, page) ==
    IF d = "banamex" THEN banamex_find_column_boundaries(page.words)
    ELSE bbva_find_column_boundaries(page.words)

\* What the detector finds on the first of the pages 1..n on which it finds
\* anything; unresolved when there is no such page.
FirstResolved(d, pages, n) ==
    LET resolving == {k \in 1..n : ~Falsy(Detected(d, pages[k]))}
    IN  IF resolving = {} THEN NoBoundaries
        ELSE Detected(d, pages[CHOOSE k \in resolving : \A j \in resolving : k <= j])

\* C19: a call starts with no column boundaries; at every page it has begun
\* it holds those of the first page of its own document, in page order, on
\* which the detector resolves them, and none of another call.
C19_BoundariesOfFirstResolvingPage ==
    pc = "two" =>
        \A i \in Invocations :
            invocations[i].s.column_boundaries =
                FirstResolved(invocations[i].dialect, invocations[i].pages,
                              invocations[i].page_no)

\* Reached: the first call is on its second page, which has no header, with
\* the boundaries of its first page; the second call, of the same dialect, has
\* meanwhile resolved other boundaries on its own document.
C19_Witness ==
    /\ pc = "two"
    /\ interleaved
    /\ invocations[1].page_no = 2
    /\ Falsy(Detected(invocations[1].dialect, invocations[1].pages[2]))
    /\ ~Falsy(invocations[1].s.column_boundaries)
    /\ invocations[1].s.column_boundaries =
           Detected(invocations[1].dialect, invocations[1].pages[1])
    /\ invocations[2].dialect = invocations[1].dialect
    /\ ~Falsy(invocations[2].s.column_boundaries)
    /\ invocations[2].s.column_boundaries # invocations[1].s.column_boundaries

\* C20: a line of a bbva debit page in which an ignore pattern is found goes
\* no further than the ignore test: the section flag, the transaction list
\* (the description of its last transaction with it) and the line loop are as
\* before, whatever else the line holds.
C20_IgnoredLineChangesNothing ==
    [][(pc = "debito" /\ nlines' = nlines + 1 /\ is_ignore_line(line_read')) =>
           /\ in_transaction_section' = in_transaction_section
           /\ all_transactions' = all_transactions
           /\ reading' = reading]_vars

\* Reached: inside the section, after one transaction, a line with the stop
\* marker and a word an ignore pattern matches has been taken; the section is
\* still open, the loop still runs and the transaction is as it was.
C20_Witness ==
    /\ pc = "debito"
    /\ nlines = 3
    /\ is_ignore_line(line_read)
    /\ DebitoHasStop(line_read)
    /\ in_transaction_section
    /\ reading
    /\ Len(all_transactions) = 1
    /\ all_transactions[1].Descripcion = "PAGO"

====
